---- MODULE Spec2Model ----
(***************************************************************************)
(* Model of the reconciliation engine of the IM reconciliation tool:       *)
(* ReconciliationEngine (src/parsers/reconciliation_engine.py), the file   *)
(* pipeline process_file_for_reconciliation and the parsers' results       *)
(* (src/utils/file_parsers.py).                                            *)
(*                                                                         *)
(* A Python dict keeps insertion order, so each of the engine's three      *)
(* mappings is a sequence of parsed records with pairwise different        *)
(* file_path; assigning to an existing key keeps its position.             *)
(* A parsed record is the dict a parser returns; a key the code reads with *)
(* .get(key, []) and that is absent is the empty sequence here, and        *)
(* has_error says whether the dict has the key 'error'.                    *)
(* The empty string stands for every falsy TradeID ('' or a missing one).  *)
(* list(a_set) has no specified order: trade_ids of a discrepancy is a set.*)
(***************************************************************************)
EXTENDS Integers, Sequences, FiniteSets, TLC

VARIABLES
    trade_data,              \* self.trade_data
    ack_data,                \* self.ack_data
    error_data,              \* self.error_data
    reconciliation_history,  \* self.reconciliation_history
    clock,                   \* the latest instant datetime.now() has returned
    result,                  \* what the last call on the engine returned
    stale,                   \* add_file_data or clear_data was called after the last reconcile_all
    test_pc,                 \* position of the engine test script
    pc,                      \* position of each ingesting thread
    local,                   \* locals of each ingesting thread
    last_processed,          \* TradeFileHandler.last_processed
    lock,                    \* TradeFileHandler.lock: the thread that holds it, or 0
    handler,                 \* each thread in TradeFileHandler.on_created
    invoked,                 \* the calls of handlers' callbacks, in order
    wall,                    \* time.time(), in seconds
    observers,               \* the Observer objects started, in order
    attrs,                   \* the attributes set on the function monitor_folders
    caller,                  \* each thread in monitor_folders
    collections,             \* the ids of the documents in the vector store's collections
    handed                   \* what was handed to the vector store, in order

vars == <<trade_data, ack_data, error_data, reconciliation_history, clock, result,
          stale, test_pc, pc, local, last_processed, lock, handler, invoked, wall,
          observers, attrs, caller, collections, handed>>

\* the folder watcher's state
watcher == <<last_processed, lock, handler, invoked, wall>>

\* the state of monitor_folders and its observers
monitor == <<observers, attrs, caller>>

\* the vector store's state
index == <<collections, handed>>

\* what the reconciliation engine and its callers never touch
periphery == <<watcher, monitor, index>>

\* what the folder watcher and the vector store never touch
core == <<trade_data, ack_data, error_data, reconciliation_history, clock, result,
          stale, test_pc, pc, local>>

engine == <<trade_data, ack_data, error_data, reconciliation_history>>

-----------------------------------------------------------------------------
(* Bounds of the model *)

\* reconcile_all is not called once the history holds this many reports
MaxHistory == 2

\* datetime.now() yields one of the instants 0..MaxTime, and never an earlier one than before
MaxTime == 1

\* time.time() yields one of the seconds 0..MaxWall, and never an earlier one than before
MaxWall == 3

\* the events each thread handles in TradeFileHandler.on_created, the file events a started
\* observer dispatches, and the calls of monitor_folders each thread makes
MaxEvents == 2

\* the counts given to _get_reconciliation_status on its own are 0..MaxCount
MaxCount == 3

-----------------------------------------------------------------------------
(* Parsed records *)

ParsedData(ft, fp, err, trades, acks, errors, ore) ==
    [file_type |-> ft, file_path |-> fp, has_error |-> err, trades |-> trades,
     acknowledgments |-> acks, errors |-> errors, ore_errors |-> ore]

Ack(id, st) == [TradeID |-> id, Status |-> st]

\* parse_trade_extract, success
TradeExtract(fp, trades) ==
    ParsedData("trade_extract", fp, FALSE, trades, <<>>, <<>>, <<>>)

\* parse_acknowledgment, success
Acknowledgment(fp, acks) ==
    ParsedData("acknowledgment", fp, FALSE, <<>>, acks, <<>>, <<>>)

\* parse_partial_transform_failure, success
TransformFailure(fp, errors) ==
    ParsedData("transform_failure", fp, FALSE, <<>>, <<>>, errors, <<>>)

\* parse_partial_ore, success
OreError(fp, ore) ==
    ParsedData("ore_error", fp, FALSE, <<>>, <<>>, <<>>, ore)

\* the except branch of every parser: the record of its kind with 'error' and empty lists
ParseFailure(ft, fp) ==
    ParsedData(ft, fp, TRUE, <<>>, <<>>, <<>>, <<>>)

-----------------------------------------------------------------------------
(* Python dict, insertion ordered *)

Range(s) == {s[i] : i \in 1..Len(s)}

\* list(d.keys())
Keys(d) == [i \in 1..Len(d) |-> d[i].file_path]

KeySet(d) == {d[i].file_path : i \in 1..Len(d)}

\* d[k], for k in d
Lookup(d, k) == d[CHOOSE i \in 1..Len(d) : d[i].file_path = k]

\* mutant: every assignment adds an entry, also for a key that is present
DictSet_appends(d, v) == Append(d, v)

\* d[v.file_path] = v
DictSet(d, v) ==
    IF v.file_path \in KeySet(d)
    THEN [i \in 1..Len(d) |-> IF d[i].file_path = v.file_path THEN v ELSE d[i]]
    ELSE Append(d, v)

-----------------------------------------------------------------------------
(* reconcile_all: the report computed from the three mappings *)

RECURSIVE SumLens(_)
\* sum of len(x) over a sequence of lists
SumLens(ls) == IF ls = <<>> THEN 0 ELSE Len(Head(ls)) + SumLens(Tail(ls))

RECURSIVE Extend(_)
\* the lists of a sequence, each appended to the one before with list.extend
Extend(ls) == IF ls = <<>> THEN <<>> ELSE Head(ls) \o Extend(Tail(ls))

RECURSIVE WithStatus(_, _)
\* [ack for ack in acks if ack.get('Status') == status]
WithStatus(acks, status) ==
    IF acks = <<>> THEN <<>>
    ELSE IF Head(acks).Status = status
         THEN <<Head(acks)>> \o WithStatus(Tail(acks), status)
         ELSE WithStatus(Tail(acks), status)

\* mutant: the records of the first trade file alone are counted
total_trades_sent_first_source(td) == IF td = <<>> THEN 0 ELSE Len(td[1].trades)

\* mutant: the trade files are counted, not their records
total_trades_sent_files(td) == Len(td)

\* mutant: the distinct TradeIDs are counted, not the records
total_trades_sent_unique(td) ==
    Cardinality(UNION {{t.TradeID : t \in Range(td[i].trades)} : i \in 1..Len(td)})

\* mutant: the counter is a field of the engine that reconcile_all does not reset
total_trades_sent_accumulated(td) ==
    SumLens([i \in 1..Len(td) |-> td[i].trades])
    + (IF reconciliation_history = <<>> THEN 0
       ELSE reconciliation_history[Len(reconciliation_history)].summary.total_trades_sent)

\* total_trades_sent += len(trades), over every trade file
total_trades_sent(td) == SumLens([i \in 1..Len(td) |-> td[i].trades])

\* mutant: the falsy TradeIDs are collected with the others
all_trade_ids_with_falsy(td) ==
    UNION {{t.TradeID : t \in Range(td[i].trades)} : i \in 1..Len(td)}

\* all_trade_ids: the truthy TradeIDs of every trade file
all_trade_ids(td) ==
    UNION {{t.TradeID : t \in {x \in Range(td[i].trades) : x.TradeID # ""}} : i \in 1..Len(td)}

\* every acknowledgment entry of every acknowledgment file, in order
AllAcks(ad) == Extend([i \in 1..Len(ad) |-> ad[i].acknowledgments])

\* mutant: the acknowledged trades are counted, not the ACK entries
total_acks_unique(ad) ==
    Cardinality({a.TradeID : a \in {x \in Range(AllAcks(ad)) : x.Status = "ACK"}})

\* total_acks += len([ack for ack in acks if ack.get('Status') == 'ACK'])
total_acks(ad) == Len(WithStatus(AllAcks(ad), "ACK"))

\* total_nacks += len([ack for ack in acks if ack.get('Status') == 'NACK'])
total_nacks(ad) == Len(WithStatus(AllAcks(ad), "NACK"))

\* acknowledged_trades: if trade_id: if status == 'ACK': add
acknowledged_trades(ad) ==
    {a.TradeID : a \in {x \in Range(AllAcks(ad)) : x.TradeID # "" /\ x.Status = "ACK"}}

\* mutant: the NACK branch adds nothing
nacked_trades_not_collected(ad) == {}

\* nacked_trades: if trade_id: elif status == 'NACK': add
nacked_trades(ad) ==
    {a.TradeID : a \in {x \in Range(AllAcks(ad)) : x.TradeID # "" /\ x.Status = "NACK"}}

\* mutant: an acknowledgment for a trade that was not sent counts as missing
missing_acks_with_unexpected(td, ad) ==
    ((all_trade_ids(td) \ acknowledged_trades(ad)) \ nacked_trades(ad))
    \cup ((acknowledged_trades(ad) \cup nacked_trades(ad)) \ all_trade_ids(td))

\* mutant: the nacked trades are not taken out
missing_acks_nacks_kept(td, ad) == all_trade_ids(td) \ acknowledged_trades(ad)

\* missing_acks = all_trade_ids - acknowledged_trades - nacked_trades
missing_acks(td, ad) ==
    (all_trade_ids(td) \ acknowledged_trades(ad)) \ nacked_trades(ad)

\* mutant: the nacked trades are left out of the unexpected ones
unexpected_acks_acked_only(td, ad) == acknowledged_trades(ad) \ all_trade_ids(td)

\* unexpected_acks = (acknowledged_trades | nacked_trades) - all_trade_ids
unexpected_acks(td, ad) ==
    (acknowledged_trades(ad) \cup nacked_trades(ad)) \ all_trade_ids(td)

\* transform_errors.extend(error_data.get('errors', [])) for each transform_failure file
transform_errors(ed) ==
    Extend([i \in 1..Len(ed) |->
              IF ed[i].file_type = "transform_failure" THEN ed[i].errors ELSE <<>>])

\* mutant: each ore_error file's entries take the place of the ones collected before
ore_errors_last_source(ed) ==
    IF \E i \in 1..Len(ed) : ed[i].file_type = "ore_error"
    THEN ed[CHOOSE i \in 1..Len(ed) :
               /\ ed[i].file_type = "ore_error"
               /\ \A k \in (i + 1)..Len(ed) : ed[k].file_type # "ore_error"].ore_errors
    ELSE <<>>

\* ore_errors.extend(error_data.get('ore_errors', [])) for each ore_error file
ore_errors(ed) ==
    Extend([i \in 1..Len(ed) |->
              IF ed[i].file_type = "transform_failure" THEN <<>>
              ELSE IF ed[i].file_type = "ore_error" THEN ed[i].ore_errors ELSE <<>>])

\* mutant: the transform-error rule is tried before the missing-acknowledgment rule
GetReconciliationStatus_transform_first(trades_sent, acks, nacks, missing, transform, ore) ==
    IF trades_sent = 0 THEN "NO_TRADES"
    ELSE IF missing = 0 /\ transform = 0 /\ ore = 0 THEN "FULLY_RECONCILED"
    ELSE IF transform > 0 THEN "TRANSFORM_ERRORS"
    ELSE IF missing > 0 THEN "MISSING_ACKNOWLEDGMENTS"
    ELSE IF ore > 0 THEN "ORE_ERRORS"
    ELSE "PARTIALLY_RECONCILED"

\* mutant: the fully-reconciled rule is tried before the no-trades rule
GetReconciliationStatus_reconciled_first(trades_sent, acks, nacks, missing, transform, ore) ==
    IF missing = 0 /\ transform = 0 /\ ore = 0 THEN "FULLY_RECONCILED"
    ELSE IF trades_sent = 0 THEN "NO_TRADES"
    ELSE IF missing > 0 THEN "MISSING_ACKNOWLEDGMENTS"
    ELSE IF transform > 0 THEN "TRANSFORM_ERRORS"
    ELSE IF ore > 0 THEN "ORE_ERRORS"
    ELSE "PARTIALLY_RECONCILED"

\* mutant: no rule for ORE errors
GetReconciliationStatus_no_ore_rule(trades_sent, acks, nacks, missing, transform, ore) ==
    IF trades_sent = 0 THEN "NO_TRADES"
    ELSE IF missing = 0 /\ transform = 0 /\ ore = 0 THEN "FULLY_RECONCILED"
    ELSE IF missing > 0 THEN "MISSING_ACKNOWLEDGMENTS"
    ELSE IF transform > 0 THEN "TRANSFORM_ERRORS"
    ELSE "PARTIALLY_RECONCILED"

\* mutant: no rule for transform errors
GetReconciliationStatus_no_transform_rule(trades_sent, acks, nacks, missing, transform, ore) ==
    IF trades_sent = 0 THEN "NO_TRADES"
    ELSE IF missing = 0 /\ transform = 0 /\ ore = 0 THEN "FULLY_RECONCILED"
    ELSE IF missing > 0 THEN "MISSING_ACKNOWLEDGMENTS"
    ELSE IF ore > 0 THEN "ORE_ERRORS"
    ELSE "PARTIALLY_RECONCILED"

\* _get_reconciliation_status
GetReconciliationStatus(trades_sent, acks, nacks, missing, transform, ore) ==
    IF trades_sent = 0 THEN "NO_TRADES"
    ELSE IF missing = 0 /\ transform = 0 /\ ore = 0 THEN "FULLY_RECONCILED"
    ELSE IF missing > 0 THEN "MISSING_ACKNOWLEDGMENTS"
    ELSE IF transform > 0 THEN "TRANSFORM_ERRORS"
    ELSE IF ore > 0 THEN "ORE_ERRORS"
    ELSE "PARTIALLY_RECONCILED"

\* reconciliation_results['summary']
Summary(td, ad, ed) ==
    [total_trades_sent      |-> total_trades_sent(td),
     total_acknowledgments  |-> total_acks(ad),
     total_nacknowledgments |-> total_nacks(ad),
     missing_acknowledgments |-> Cardinality(missing_acks(td, ad)),
     transform_errors       |-> Len(transform_errors(ed)),
     ore_errors             |-> Len(ore_errors(ed)),
     reconciliation_status  |->
         GetReconciliationStatus(total_trades_sent(td), total_acks(ad), total_nacks(ad),
                                 Cardinality(missing_acks(td, ad)),
                                 Len(transform_errors(ed)), Len(ore_errors(ed)))]

Discrepancy(type, ids) == [type |-> type, trade_ids |-> ids, count |-> Cardinality(ids)]

\* reconciliation_results['discrepancies']
Discrepancies(td, ad) ==
    (IF missing_acks(td, ad) # {}
     THEN <<Discrepancy("missing_acknowledgments", missing_acks(td, ad))>> ELSE <<>>)
    \o
    (IF unexpected_acks(td, ad) # {}
     THEN <<Discrepancy("unexpected_acknowledgments", unexpected_acks(td, ad))>> ELSE <<>>)

ErrorGroup(type, items) == [type |-> type, errors |-> items, count |-> Len(items)]

\* mutant: both groups are appended, empty or not
Errors_always(ed) ==
    <<ErrorGroup("transform_failures", transform_errors(ed)),
      ErrorGroup("ore_errors", ore_errors(ed))>>

\* reconciliation_results['errors']
Errors(ed) ==
    (IF transform_errors(ed) # <<>>
     THEN <<ErrorGroup("transform_failures", transform_errors(ed))>> ELSE <<>>)
    \o
    (IF ore_errors(ed) # <<>>
     THEN <<ErrorGroup("ore_errors", ore_errors(ed))>> ELSE <<>>)

\* reconciliation_results, as returned by reconcile_all called at instant now
ReconciliationResults(td, ad, ed, now) ==
    [timestamp     |-> now,
     trade_files   |-> Keys(td),
     ack_files     |-> Keys(ad),
     error_files   |-> Keys(ed),
     summary       |-> Summary(td, ad, ed),
     discrepancies |-> Discrepancies(td, ad),
     errors        |-> Errors(ed)]

-----------------------------------------------------------------------------
(* ReconciliationEngine: the effect of each method on the engine's fields *)

\* self.trade_data after add_file_data(parsed_data)
trade_data_added(td, parsed_data) ==
    IF parsed_data.has_error THEN td
    ELSE IF parsed_data.file_type = "trade_extract" THEN DictSet(td, parsed_data)
    ELSE td

\* mutant: the 'error' key is not looked at
ack_data_added_despite_error(ad, parsed_data) ==
    IF parsed_data.file_type = "acknowledgment" THEN DictSet(ad, parsed_data) ELSE ad

\* self.ack_data after add_file_data(parsed_data)
ack_data_added(ad, parsed_data) ==
    IF parsed_data.has_error THEN ad
    ELSE IF parsed_data.file_type = "trade_extract" THEN ad
    ELSE IF parsed_data.file_type = "acknowledgment" THEN DictSet(ad, parsed_data)
    ELSE ad

\* mutant: every kind that is no trade extract and no acknowledgment is stored as an error
error_data_added_any_kind(ed, parsed_data) ==
    IF parsed_data.has_error THEN ed
    ELSE IF parsed_data.file_type \in {"trade_extract", "acknowledgment"} THEN ed
    ELSE DictSet(ed, parsed_data)

\* self.error_data after add_file_data(parsed_data)
error_data_added(ed, parsed_data) ==
    IF parsed_data.has_error THEN ed
    ELSE IF parsed_data.file_type \in {"trade_extract", "acknowledgment"} THEN ed
    ELSE IF parsed_data.file_type \in {"transform_failure", "ore_error"}
         THEN DictSet(ed, parsed_data)
    ELSE ed

\* ReconciliationEngine.add_file_data
add_file_data(parsed_data) ==
    /\ trade_data' = trade_data_added(trade_data, parsed_data)
    /\ ack_data' = ack_data_added(ack_data, parsed_data)
    /\ error_data' = error_data_added(error_data, parsed_data)
    /\ UNCHANGED reconciliation_history

\* mutant: the history keeps its first report and takes no other
history_reconciled_once(history, reconciliation_results) ==
    IF history = <<>> THEN <<reconciliation_results>> ELSE history

\* mutant: the report is returned and not appended
history_reconciled_not_appended(history, reconciliation_results) == history

\* mutant: the history keeps the latest report alone
history_reconciled_latest_only(history, reconciliation_results) == <<reconciliation_results>>

\* self.reconciliation_history after reconcile_all has built reconciliation_results
history_reconciled(history, reconciliation_results) ==
    Append(history, reconciliation_results)

\* mutant: the data reconciled is taken out of the mappings
reconcile_all_consumes(now) ==
    /\ reconciliation_history' =
           history_reconciled(reconciliation_history,
               ReconciliationResults(trade_data, ack_data, error_data, now))
    /\ trade_data' = <<>>
    /\ ack_data' = <<>>
    /\ error_data' = <<>>

\* ReconciliationEngine.reconcile_all, called at instant now
reconcile_all(now) ==
    /\ reconciliation_history' =
           history_reconciled(reconciliation_history,
               ReconciliationResults(trade_data, ack_data, error_data, now))
    /\ UNCHANGED <<trade_data, ack_data, error_data>>

\* mutant: clearing the data clears the history with it
clear_data_and_history ==
    /\ trade_data' = <<>>
    /\ ack_data' = <<>>
    /\ error_data' = <<>>
    /\ reconciliation_history' = <<>>

\* ReconciliationEngine.clear_data
clear_data ==
    /\ trade_data' = <<>>
    /\ ack_data' = <<>>
    /\ error_data' = <<>>
    /\ UNCHANGED reconciliation_history

\* ReconciliationEngine.get_reconciliation_history
get_reconciliation_history == reconciliation_history

\* mutant: the first report of the history is returned
get_latest_reconciliation_first ==
    IF reconciliation_history # <<>> THEN <<reconciliation_history[1]>> ELSE <<>>

\* ReconciliationEngine.get_latest_reconciliation: the last report, or {} (no entry here)
get_latest_reconciliation ==
    IF reconciliation_history # <<>>
    THEN <<reconciliation_history[Len(reconciliation_history)]>>
    ELSE <<>>

-----------------------------------------------------------------------------
(* What a call returned and the last line it gave the logger: kind says which Python   *)
(* value was returned, reports holds the reports in it, parsed the parsed record in it *)

Returned(kind, reports, parsed, logged) ==
    [kind |-> kind, reports |-> reports, parsed |-> parsed, logged |-> logged]

\* the line add_file_data logs last: logger.error and return, or logger.info at its end
AddLogged(parsed_data) ==
    IF parsed_data.has_error THEN "error: has parsing errors" ELSE "info: Added"

-----------------------------------------------------------------------------
(* Files and parsers (src/utils/file_parsers.py) *)

\* the substrings get_file_parser looks for that os.path.basename(file_path).lower() contains
NameTokens(file_path) ==
    CASE file_path = "TRADE_EXTRACT_1.csv" -> {"trade_extract"}
      [] file_path = "TRADE_EXTRACT_2.csv" -> {"trade_extract"}
      [] file_path = "ACK_1.csv" -> {"ack"}
      [] file_path = "NACK_1.csv" -> {"ack", "nack"}
      [] file_path = "PARTIAL_TRANSFORM_FAILURE_1.json" -> {"transform_failure"}
      [] file_path = "PARTIAL_ORE_1.csv" -> {"ore"}
      [] OTHER -> {}

\* the suffix file_path.endswith tests
Suffix(file_path) ==
    CASE file_path = "PARTIAL_TRANSFORM_FAILURE_1.json" -> ".json"
      [] file_path = "README.txt" -> ".txt"
      [] OTHER -> ".csv"

\* get_file_parser: the parser's name, or "None"
get_file_parser(file_path) ==
    IF "trade_extract" \in NameTokens(file_path) /\ Suffix(file_path) = ".csv"
    THEN "parse_trade_extract"
    ELSE IF ("ack" \in NameTokens(file_path) \/ "nack" \in NameTokens(file_path))
            /\ Suffix(file_path) = ".csv"
    THEN "parse_acknowledgment"
    ELSE IF "transform_failure" \in NameTokens(file_path) /\ Suffix(file_path) = ".json"
    THEN "parse_partial_transform_failure"
    ELSE IF "ore" \in NameTokens(file_path) /\ Suffix(file_path) = ".csv"
    THEN "parse_partial_ore"
    ELSE "None"

\* A file on disk: its path and what it holds. format is what the content can be read as
\* ("trades": a CSV with the four trade columns, "acks": a CSV with TradeID and Status,
\* "errors": a JSON object with errors, "ore": a CSV with TradeID and Issue,
\* "garbage": none of these), rows its records.
File(file_path, format, rows) == [file_path |-> file_path, format |-> format, rows |-> rows]

\* parser(file_path): the try branch when the content has the parser's columns, else the
\* except branch
Parse(parser, file) ==
    CASE parser = "parse_trade_extract" ->
            IF file.format = "trades" THEN TradeExtract(file.file_path, file.rows)
            ELSE ParseFailure("trade_extract", file.file_path)
      [] parser = "parse_acknowledgment" ->
            IF file.format = "acks" THEN Acknowledgment(file.file_path, file.rows)
            ELSE ParseFailure("acknowledgment", file.file_path)
      [] parser = "parse_partial_transform_failure" ->
            IF file.format = "errors" THEN TransformFailure(file.file_path, file.rows)
            ELSE ParseFailure("transform_failure", file.file_path)
      [] parser = "parse_partial_ore" ->
            IF file.format = "ore" THEN OreError(file.file_path, file.rows)
            ELSE ParseFailure("ore_error", file.file_path)

-----------------------------------------------------------------------------
(* Inputs *)

Trade(id) == [TradeID |-> id]

\* the instants datetime.now() can return now
Instants == clock..MaxTime

\* records handed to add_file_data in sequences of calls of any length
SmallInputs ==
    { TradeExtract("TRADE_EXTRACT_1.csv", <<Trade("T1"), Trade("T2")>>),
      Acknowledgment("ACK_1.csv", <<Ack("T1", "ACK"), Ack("T2", "NACK")>>),
      OreError("PARTIAL_ORE_1.csv", <<"o1">>),
      ParseFailure("acknowledgment", "ACK_1.csv"),
      ParsedData("unknown", "README.txt", FALSE, <<>>, <<>>, <<>>, <<>>) }

\* files handed to process_file_for_reconciliation
SmallFiles ==
    { File("TRADE_EXTRACT_1.csv", "trades", <<Trade("T1"), Trade("T2")>>),
      File("ACK_1.csv", "acks", <<Ack("T1", "ACK"), Ack("T2", "NACK")>>),
      File("PARTIAL_ORE_1.csv", "garbage", <<>>),
      File("README.txt", "garbage", <<>>) }

-----------------------------------------------------------------------------
(* The engine driven through its methods, one call after the other *)

Threads == {1, 2}

\* the locals of a thread that has not started: no file, nothing parsed
NoLocal ==
    [file      |-> <<>>,   \* the file whose path process_file_for_reconciliation was given
     parsed    |-> <<>>,   \* parsed_data
     after_put |-> <<>>,   \* the engine's fields as this thread's add_file_data left them
     now       |-> 0,      \* reconcile_all: datetime.now()
     files     |-> <<>>,   \* reconcile_all: the three lists of keys, as far as built
     iter      |-> <<>>,   \* reconcile_all: the mapping as it was when its loop began
     seen      |-> <<>>,   \* reconcile_all: the mappings as the finished loops read them
     returned  |-> Returned("None", <<>>, <<>>, "")]

\* a thread that is not in TradeFileHandler.on_created
NoEvent ==
    [pc           |-> "idle",
     file_path    |-> "",      \* event.src_path
     current_time |-> 0,       \* time.time() as on_created read it
     events       |-> 0,       \* the events this thread was given so far
     outcome      |-> ""]      \* how its last event ended

\* monitor_folders has no attribute _observer and no attribute _thread
NoAttrs == [observer |-> 0, thread |-> 0]

\* a thread that is not in monitor_folders
NoCall ==
    [pc       |-> "idle",
     callback |-> 0,           \* the callback the call was given
     observer |-> 0,           \* the Observer the call created, by its place in observers
     calls    |-> 0,           \* the calls this thread made so far
     returned |-> <<>>,        \* what the last call returned: a thread, by its observer
     raised   |-> ""]          \* what the last call raised

\* IMReconciliationVectorStore.__init__: the collections main.py writes to
CollectionNames == {"im_reconciliation_results", "im_file_data"}

\* ReconciliationEngine.__init__
Init ==
    /\ trade_data = <<>>
    /\ ack_data = <<>>
    /\ error_data = <<>>
    /\ reconciliation_history = <<>>
    /\ clock = 0
    /\ result = Returned("None", <<>>, <<>>, "")
    /\ stale = FALSE
    /\ test_pc = "start"
    /\ pc = [t \in Threads |-> <<"idle", 0>>]
    /\ local = [t \in Threads |-> NoLocal]
    /\ last_processed = <<>>
    /\ lock = 0
    /\ handler = [t \in Threads |-> NoEvent]
    /\ invoked = <<>>
    /\ wall = 0
    /\ observers = <<>>
    /\ attrs = NoAttrs
    /\ caller = [t \in Threads |-> NoCall]
    /\ collections = [c \in CollectionNames |-> {}]
    /\ handed = <<>>

\* engine.add_file_data(parsed_data)
CallAddFileData(parsed_data) ==
    /\ add_file_data(parsed_data)
    /\ result' = Returned("None", <<>>, <<>>, AddLogged(parsed_data))
    /\ stale' = TRUE
    /\ UNCHANGED <<clock, test_pc, pc, local, periphery>>

\* engine.reconcile_all()
CallReconcileAll(now) ==
    /\ Len(reconciliation_history) < MaxHistory
    /\ reconcile_all(now)
    /\ result' = Returned("report",
                          <<ReconciliationResults(trade_data, ack_data, error_data, now)>>,
                          <<>>, "")
    /\ clock' = now
    /\ stale' = FALSE
    /\ UNCHANGED <<test_pc, pc, local, periphery>>

\* engine.clear_data()
CallClearData ==
    /\ clear_data
    /\ result' = Returned("None", <<>>, <<>>, "info: Cleared")
    /\ stale' = TRUE
    /\ UNCHANGED <<clock, test_pc, pc, local, periphery>>

\* engine.get_latest_reconciliation()
CallGetLatestReconciliation ==
    /\ result' = Returned(IF reconciliation_history # <<>> THEN "report" ELSE "empty_dict",
                          get_latest_reconciliation, <<>>, "")
    /\ UNCHANGED <<trade_data, ack_data, error_data, reconciliation_history, clock,
                   stale, test_pc, pc, local, periphery>>

\* engine.get_reconciliation_history()
CallGetReconciliationHistory ==
    /\ result' = Returned("list", get_reconciliation_history, <<>>, "")
    /\ UNCHANGED <<trade_data, ack_data, error_data, reconciliation_history, clock,
                   stale, test_pc, pc, local, periphery>>

\* process_file_for_reconciliation, no parser for the file: returns {'error': ...}
ProcessFileNoParser(file) ==
    /\ get_file_parser(file.file_path) = "None"
    /\ result' = Returned("error", <<>>, <<>>, "warning: No parser found")
    /\ UNCHANGED <<trade_data, ack_data, error_data, reconciliation_history, clock,
                   stale, test_pc, pc, local, periphery>>

\* process_file_for_reconciliation, with a parser: parse, add_file_data, reconcile_all
ProcessFileParsed(file, now) ==
    LET parsed_data == Parse(get_file_parser(file.file_path), file) IN
    /\ get_file_parser(file.file_path) # "None"
    /\ Len(reconciliation_history) < MaxHistory
    /\ trade_data' = trade_data_added(trade_data, parsed_data)
    /\ ack_data' = ack_data_added(ack_data, parsed_data)
    /\ error_data' = error_data_added(error_data, parsed_data)
    /\ reconciliation_history' =
           history_reconciled(reconciliation_history,
               ReconciliationResults(trade_data', ack_data', error_data', now))
    /\ result' = Returned("processed",
                          <<ReconciliationResults(trade_data', ack_data', error_data', now)>>,
                          <<parsed_data>>, AddLogged(parsed_data))
    /\ clock' = now
    /\ stale' = FALSE
    /\ UNCHANGED <<test_pc, pc, local, periphery>>

\* process_file_for_reconciliation(file_path, engine)
process_file_for_reconciliation(file, now) ==
    \/ ProcessFileNoParser(file)
    \/ ProcessFileParsed(file, now)

Next ==
    \/ \E parsed_data \in SmallInputs : CallAddFileData(parsed_data)
    \/ \E now \in Instants : CallReconcileAll(now)
    \/ CallClearData
    \/ CallGetLatestReconciliation
    \/ CallGetReconciliationHistory
    \/ \E file \in SmallFiles, now \in Instants : process_file_for_reconciliation(file, now)

Spec == Init /\ [][Next]_vars

-----------------------------------------------------------------------------
(* The engine test (src/test_system.py, test_reconciliation_engine): a fresh engine,   *)
(* add_file_data for each record, then one reconcile_all whose result is inspected.   *)

TestTradePaths == {"TRADE_EXTRACT_1.csv", "TRADE_EXTRACT_2.csv"}

TestTrades ==
    { <<Trade("T1"), Trade("T2")>>, <<Trade("T1"), Trade("T1")>>, <<Trade(""), Trade("T2")>> }

\* the second path also names a trade extract: one path, two mappings
TestAckPaths == {"ACK_1.csv", "TRADE_EXTRACT_1.csv"}

TestAcks ==
    { <<Ack("T1", "ACK"), Ack("T2", "NACK")>>, <<Ack("T1", "ACK"), Ack("T1", "ACK")>>,
      <<Ack("T9", "NACK")>>, <<Ack("", "ACK"), Ack("T2", "PENDING")>> }

TestErrorPaths == {"PARTIAL_TRANSFORM_FAILURE_1.json", "PARTIAL_ORE_1.csv"}

TestInputs ==
    {TradeExtract(fp, trades) : fp \in TestTradePaths, trades \in TestTrades}
    \cup {Acknowledgment(fp, acks) : fp \in TestAckPaths, acks \in TestAcks}
    \cup {TransformFailure(fp, IF fp = "PARTIAL_ORE_1.csv" THEN <<"e3">> ELSE <<"e1", "e2">>) :
             fp \in TestErrorPaths}
    \cup {OreError(fp, IF fp = "PARTIAL_ORE_1.csv" THEN <<"o1">> ELSE <<"o2">>) :
             fp \in TestErrorPaths}
    \cup {ParseFailure(ft, "TRADE_EXTRACT_2.csv") :
             ft \in {"trade_extract", "acknowledgment", "transform_failure", "ore_error"}}
    \cup { ParsedData("trade_extract", "TRADE_EXTRACT_1.csv", TRUE,
                      <<Trade("T9")>>, <<>>, <<>>, <<>>),
           ParsedData("nacknowledgment", "ACK_1.csv", FALSE,
                      <<Trade("T9")>>, <<Ack("T9", "ACK")>>, <<"e9">>, <<"o9">>),
           ParsedData("None", "PARTIAL_ORE_1.csv", FALSE,
                      <<Trade("T9")>>, <<Ack("T9", "ACK")>>, <<"e9">>, <<"o9">>) }

\* engine.add_file_data(trade_data), engine.add_file_data(ack_data), ...
TestAddFileData(parsed_data) ==
    /\ test_pc \in {"start", "added"}
    /\ add_file_data(parsed_data)
    /\ test_pc' = "added"
    /\ result' = Returned("None", <<>>, <<>>, AddLogged(parsed_data))
    /\ stale' = TRUE
    /\ UNCHANGED <<clock, pc, local, periphery>>

\* result = engine.reconcile_all()
TestReconcileAll(now) ==
    /\ test_pc \in {"start", "added"}
    /\ reconcile_all(now)
    /\ test_pc' = "reconciled"
    /\ result' = Returned("report",
                          <<ReconciliationResults(trade_data, ack_data, error_data, now)>>,
                          <<>>, "")
    /\ clock' = now
    /\ stale' = FALSE
    /\ UNCHANGED <<pc, local, periphery>>

TestNext ==
    \/ \E parsed_data \in TestInputs : TestAddFileData(parsed_data)
    \/ \E now \in Instants : TestReconcileAll(now)

TestSpec == Init /\ [][TestNext]_vars

-----------------------------------------------------------------------------
(* The engine test with records of pairwise different file_path, given to add_file_data *)
(* in any order, then one reconcile_all.                                               *)

OrderInputs ==
    {TradeExtract(fp, trades) : fp \in TestTradePaths,
                                 trades \in {<<Trade("T1"), Trade("T2")>>, <<Trade("T3")>>}}
    \cup {Acknowledgment("ACK_1.csv", acks) :
             acks \in {<<Ack("T1", "ACK"), Ack("T9", "NACK")>>, <<Ack("T3", "NACK")>>}}
    \cup {TransformFailure("PARTIAL_TRANSFORM_FAILURE_1.json", <<"e1", "e2">>),
          OreError("PARTIAL_TRANSFORM_FAILURE_1.json", <<"o2">>),
          OreError("PARTIAL_ORE_1.csv", <<"o1">>)}

\* the file_path of every record in the three mappings
StoredPaths == KeySet(trade_data) \cup KeySet(ack_data) \cup KeySet(error_data)

OrderNext ==
    \/ \E parsed_data \in OrderInputs :
          parsed_data.file_path \notin StoredPaths /\ TestAddFileData(parsed_data)
    \/ \E now \in Instants : TestReconcileAll(now)

OrderSpec == Init /\ [][OrderNext]_vars

-----------------------------------------------------------------------------
(* Files arriving one after the other on a fresh engine, each one handed to             *)
(* process_file_for_reconciliation as the orchestrator does for a new file.            *)

ScenarioFiles ==
    { File("TRADE_EXTRACT_1.csv", "trades", <<Trade("T001"), Trade("T002")>>),
      File("TRADE_EXTRACT_1.csv", "trades", <<Trade("T001"), Trade("T001"), Trade("")>>),
      File("TRADE_EXTRACT_1.csv", "trades", <<>>),
      File("ACK_1.csv", "acks", <<Ack("T001", "ACK"), Ack("T002", "NACK")>>),
      File("ACK_1.csv", "acks", <<Ack("T001", "NACK"), Ack("", "ACK")>>),
      File("ACK_1.csv", "acks", <<Ack("T999", "ACK")>>),
      File("ACK_1.csv", "acks", <<Ack("T999", "NACK")>>),
      File("ACK_1.csv", "acks", <<Ack("T999", "NACK"), Ack("T999", "ACK")>>),
      File("ACK_1.csv", "acks", <<>>),
      File("NACK_1.csv", "garbage", <<>>),
      File("PARTIAL_TRANSFORM_FAILURE_1.json", "errors", <<"e1", "e2">>),
      File("PARTIAL_ORE_1.csv", "ore", <<"o1">>),
      File("README.txt", "garbage", <<>>) }

ScenarioNext ==
    \E file \in ScenarioFiles, now \in Instants : process_file_for_reconciliation(file, now)

ScenarioSpec == Init /\ [][ScenarioNext]_vars

-----------------------------------------------------------------------------
(* Two threads, each in process_file_for_reconciliation on the same engine. The code    *)
(* takes no lock. A step is one operation the interpreter does not interrupt: a parse  *)
(* (no shared data), a dict assignment, a list(d.keys()), the start of a loop over a    *)
(* dict, the rest of that loop, a list.append. A loop over a dict whose number of keys  *)
(* changed after the loop began raises RuntimeError, which process_file_for_            *)
(* reconciliation catches; a loop over a dict one of whose values was replaced after    *)
(* the loop began read the old value or the new one.                                    *)

ThreadFiles ==
    { File("TRADE_EXTRACT_1.csv", "trades", <<Trade("T1"), Trade("T2")>>),
      File("TRADE_EXTRACT_1.csv", "trades", <<Trade("T1")>>),
      File("ACK_1.csv", "acks", <<Ack("T1", "ACK"), Ack("T2", "NACK")>>),
      File("NACK_1.csv", "garbage", <<>>),
      File("README.txt", "garbage", <<>>) }

\* the k-th mapping reconcile_all reads
Mapping(k) == CASE k = 1 -> trade_data [] k = 2 -> ack_data [] OTHER -> error_data

ThreadUnchanged == UNCHANGED <<result, stale, test_pc, periphery>>

\* get_file_parser returns None: return {'error': ...}
ThreadNoParser(t, file) ==
    /\ pc[t] = <<"idle", 0>>
    /\ get_file_parser(file.file_path) = "None"
    /\ pc' = [pc EXCEPT ![t] = <<"done", 0>>]
    /\ local' = [local EXCEPT ![t].file = <<file>>,
                              ![t].returned =
                                  Returned("error", <<>>, <<>>, "warning: No parser found")]
    /\ UNCHANGED <<trade_data, ack_data, error_data, reconciliation_history, clock>>
    /\ ThreadUnchanged

\* parsed_data = parser(file_path)
ThreadParse(t, file) ==
    /\ pc[t] = <<"idle", 0>>
    /\ get_file_parser(file.file_path) # "None"
    /\ pc' = [pc EXCEPT ![t] = <<"add", 0>>]
    /\ local' = [local EXCEPT ![t].file = <<file>>,
                              ![t].parsed = <<Parse(get_file_parser(file.file_path), file)>>]
    /\ UNCHANGED <<trade_data, ack_data, error_data, reconciliation_history, clock>>
    /\ ThreadUnchanged

\* reconciliation_engine.add_file_data(parsed_data)
ThreadAdd(t) ==
    /\ pc[t] = <<"add", 0>>
    /\ add_file_data(local[t].parsed[1])
    /\ pc' = [pc EXCEPT ![t] = <<"keys", 1>>]
    /\ local' = [local EXCEPT ![t].after_put =
                     <<trade_data', ack_data', error_data', reconciliation_history'>>]
    /\ UNCHANGED clock
    /\ ThreadUnchanged

\* reconcile_all: datetime.now() and list(self.trade_data.keys()), then the next two lists
ThreadKeys(t, now) ==
    \E k \in 1..3 :
       /\ pc[t] = <<"keys", k>>
       /\ IF k = 1 THEN clock' = now ELSE now = clock /\ UNCHANGED clock
       /\ pc' = [pc EXCEPT ![t] = IF k < 3 THEN <<"keys", k + 1>> ELSE <<"iter", 1>>]
       /\ local' = [local EXCEPT ![t].now = IF k = 1 THEN now ELSE @,
                                 ![t].files = Append(@, Keys(Mapping(k)))]
       /\ UNCHANGED <<trade_data, ack_data, error_data, reconciliation_history>>
       /\ ThreadUnchanged

\* reconcile_all: `for file_path, x in self.<mapping>.items():` begins
ThreadIter(t) ==
    \E k \in 1..3 :
       /\ pc[t] = <<"iter", k>>
       /\ pc' = [pc EXCEPT ![t] = <<"loop", k>>]
       /\ local' = [local EXCEPT ![t].iter = Mapping(k)]
       /\ UNCHANGED <<trade_data, ack_data, error_data, reconciliation_history, clock>>
       /\ ThreadUnchanged

\* reconcile_all: the loop over the mapping ends, having read every entry
ThreadLoop(t) ==
    \E k \in 1..3 :
       /\ pc[t] = <<"loop", k>>
       /\ Len(Mapping(k)) = Len(local[t].iter)
       /\ \E read \in {local[t].iter, Mapping(k)} :
             local' = [local EXCEPT ![t].seen = Append(@, read), ![t].iter = <<>>]
       /\ pc' = [pc EXCEPT ![t] = IF k < 3 THEN <<"iter", k + 1>> ELSE <<"append", 0>>]
       /\ UNCHANGED <<trade_data, ack_data, error_data, reconciliation_history, clock>>
       /\ ThreadUnchanged

\* reconcile_all: RuntimeError, dictionary changed size during iteration; the except branch
\* of process_file_for_reconciliation returns {'error': ..., 'file_path': ...}
ThreadLoopRaises(t) ==
    \E k \in 1..3 :
       /\ pc[t] = <<"loop", k>>
       /\ Len(Mapping(k)) # Len(local[t].iter)
       /\ pc' = [pc EXCEPT ![t] = <<"done", 0>>]
       /\ local' = [local EXCEPT ![t].iter = <<>>,
                                 ![t].returned =
                                     Returned("error", <<>>, <<>>, "error: Error processing file")]
       /\ UNCHANGED <<trade_data, ack_data, error_data, reconciliation_history, clock>>
       /\ ThreadUnchanged

\* reconciliation_results as the thread built it: the keys it listed, the entries it read
ThreadResults(t) ==
    [ReconciliationResults(local[t].seen[1], local[t].seen[2], local[t].seen[3], local[t].now)
        EXCEPT !.trade_files = local[t].files[1],
               !.ack_files = local[t].files[2],
               !.error_files = local[t].files[3]]

\* reconcile_all: self.reconciliation_history.append(reconciliation_results) and the returns
ThreadAppend(t) ==
    /\ pc[t] = <<"append", 0>>
    /\ reconciliation_history' = history_reconciled(reconciliation_history, ThreadResults(t))
    /\ pc' = [pc EXCEPT ![t] = <<"done", 0>>]
    /\ local' = [local EXCEPT ![t].returned =
                     Returned("processed", <<ThreadResults(t)>>, local[t].parsed,
                              AddLogged(local[t].parsed[1]))]
    /\ UNCHANGED <<trade_data, ack_data, error_data, clock>>
    /\ ThreadUnchanged

ThreadNext ==
    \E t \in Threads :
       \/ \E file \in ThreadFiles : ThreadNoParser(t, file)
       \/ \E file \in ThreadFiles : ThreadParse(t, file)
       \/ ThreadAdd(t)
       \/ \E now \in Instants : ThreadKeys(t, now)
       \/ ThreadIter(t)
       \/ ThreadLoop(t)
       \/ ThreadLoopRaises(t)
       \/ ThreadAppend(t)

ThreadSpec == Init /\ [][ThreadNext]_vars

-----------------------------------------------------------------------------
(* The folder watcher (src/watchers/folder_monitor.py): threads in                      *)
(* TradeFileHandler.on_created of one handler. A step is what a thread does without     *)
(* giving way: reading the clock, taking the lock, the body of the with statement, the  *)
(* call of the callback after the sleep.                                                *)

\* TradeFileHandler.__init__, monitor_folders: debounce_time = 2.0
debounce_time == 2

WatchedPaths == {"outgoing/TRADE_EXTRACT_1.csv", "incoming/out/ACK_1.csv"}

\* the condition of the two nested ifs under the lock
Debounced(lp, file_path, current_time) ==
    /\ file_path \in DOMAIN lp
    /\ current_time - lp[file_path] < debounce_time

\* mutant: the time of the event is not recorded
last_processed_not_recorded(lp, file_path, current_time) == lp

\* self.last_processed[file_path] = current_time
last_processed_accepted(lp, file_path, current_time) ==
    [p \in DOMAIN lp \cup {file_path} |-> IF p = file_path THEN current_time ELSE lp[p]]

WatcherUnchanged == UNCHANGED <<core, monitor, index>>

\* on_created: event.is_directory, return
OnCreatedDirectory(t) ==
    /\ handler[t].pc = "idle"
    /\ handler[t].events < MaxEvents
    /\ handler' = [handler EXCEPT ![t].events = @ + 1, ![t].outcome = "directory"]
    /\ UNCHANGED <<last_processed, lock, invoked, wall>>
    /\ WatcherUnchanged

\* on_created: file_path = event.src_path; current_time = time.time()
OnCreatedTime(t, file_path) ==
    /\ handler[t].pc = "idle"
    /\ handler[t].events < MaxEvents
    /\ handler' = [handler EXCEPT ![t] = [pc |-> "lock", file_path |-> file_path,
                                          current_time |-> wall, events |-> @.events + 1,
                                          outcome |-> ""]]
    /\ UNCHANGED <<last_processed, lock, invoked, wall>>
    /\ WatcherUnchanged

\* on_created: with self.lock, entered
OnCreatedAcquire(t) ==
    /\ handler[t].pc = "lock"
    /\ lock = 0
    /\ lock' = t
    /\ handler' = [handler EXCEPT ![t].pc = "check"]
    /\ UNCHANGED <<last_processed, invoked, wall>>
    /\ WatcherUnchanged

\* on_created: the event is debounced; return, which leaves the with statement
OnCreatedDebounced(t) ==
    /\ handler[t].pc = "check"
    /\ Debounced(last_processed, handler[t].file_path, handler[t].current_time)
    /\ lock' = 0
    /\ handler' = [handler EXCEPT ![t].pc = "idle", ![t].outcome = "debounced"]
    /\ UNCHANGED <<last_processed, invoked, wall>>
    /\ WatcherUnchanged

\* on_created: the event is taken; its time is recorded and the with statement is left
OnCreatedAccepted(t) ==
    /\ handler[t].pc = "check"
    /\ ~Debounced(last_processed, handler[t].file_path, handler[t].current_time)
    /\ last_processed' = last_processed_accepted(last_processed, handler[t].file_path,
                                                 handler[t].current_time)
    /\ lock' = 0
    /\ handler' = [handler EXCEPT ![t].pc = "sleep"]
    /\ UNCHANGED <<invoked, wall>>
    /\ WatcherUnchanged

\* a call of a callback: which callback, for which file, the time of the event
Invocation(callback, file_path, current_time) ==
    [callback |-> callback, file_path |-> file_path, current_time |-> current_time]

\* on_created: after time.sleep(0.5), self.callback(file_path); what it raises is logged
OnCreatedCallback(t) ==
    /\ handler[t].pc = "sleep"
    /\ invoked' = Append(invoked, Invocation(1, handler[t].file_path, handler[t].current_time))
    /\ handler' = [handler EXCEPT ![t].pc = "idle", ![t].outcome = "called"]
    /\ UNCHANGED <<last_processed, lock, wall>>
    /\ WatcherUnchanged

\* a second passes
TimePasses ==
    /\ wall < MaxWall
    /\ wall' = wall + 1
    /\ UNCHANGED <<last_processed, lock, handler, invoked>>
    /\ WatcherUnchanged

DebounceNext ==
    \/ \E t \in Threads :
          \/ OnCreatedDirectory(t)
          \/ \E file_path \in WatchedPaths : OnCreatedTime(t, file_path)
          \/ OnCreatedAcquire(t)
          \/ OnCreatedDebounced(t)
          \/ OnCreatedAccepted(t)
          \/ OnCreatedCallback(t)
    \/ TimePasses

DebounceSpec == Init /\ [][DebounceNext]_vars

-----------------------------------------------------------------------------
(* monitor_folders (src/watchers/folder_monitor.py), called by threads that each run    *)
(* IMReconciliationOrchestrator.start_folder_monitoring of their own orchestrator.      *)
(* _observer and _thread are attributes of the function, shared by all callers and      *)
(* read and written without a lock; a step is one read or write of them, or one start.  *)

\* an Observer: Observer.is_alive(), the callback of its TradeFileHandler, and whether
\* the thread running monitor() for it was started
AnObserver(callback) == [alive |-> TRUE, callback |-> callback, thread |-> FALSE]

\* every call may create one Observer
ObserverIds == 1..(Cardinality(Threads) * MaxEvents)

AliveObservers == {o \in 1..Len(observers) : observers[o].alive}

\* hasattr(monitor_folders, '_observer') and monitor_folders._observer.is_alive()
MonitoringActive ==
    /\ attrs.observer # 0
    /\ observers[attrs.observer].alive

MonitorUnchanged == UNCHANGED <<core, watcher, index>>

\* start_folder_monitoring calls monitor_folders with callback=self.process_new_file;
\* monitor_folders evaluates its first condition
MonitorFoldersCheck(t) ==
    /\ caller[t].pc = "idle"
    /\ caller[t].calls < MaxEvents
    /\ caller' = [caller EXCEPT ![t] = [pc |-> IF MonitoringActive THEN "active" ELSE "start",
                                        callback |-> t, observer |-> 0,
                                        calls |-> @.calls + 1,
                                        returned |-> <<>>, raised |-> ""]]
    /\ UNCHANGED <<observers, attrs, invoked>>
    /\ UNCHANGED <<last_processed, lock, handler, wall>>
    /\ UNCHANGED <<core, index>>

\* return monitor_folders._thread; without the attribute the read raises AttributeError,
\* which start_folder_monitoring logs
MonitorFoldersReturnActive(t) ==
    /\ caller[t].pc = "active"
    /\ caller' = [caller EXCEPT ![t].pc = "idle",
                                ![t].returned = IF attrs.thread # 0 THEN <<attrs.thread>>
                                                ELSE <<>>,
                                ![t].raised = IF attrs.thread # 0 THEN ""
                                              ELSE "AttributeError"]
    /\ UNCHANGED <<observers, attrs>>
    /\ MonitorUnchanged

\* event_handler = TradeFileHandler(callback=callback, ...); observer = Observer();
\* observer.schedule(...); observer.start()
MonitorFoldersStartObserver(t) ==
    /\ caller[t].pc = "start"
    /\ observers' = Append(observers, AnObserver(caller[t].callback))
    /\ caller' = [caller EXCEPT ![t].pc = "thread", ![t].observer = Len(observers) + 1]
    /\ UNCHANGED attrs
    /\ MonitorUnchanged

\* thread = threading.Thread(target=monitor, daemon=True); thread.start()
MonitorFoldersStartThread(t) ==
    /\ caller[t].pc = "thread"
    /\ observers' = [observers EXCEPT ![caller[t].observer].thread = TRUE]
    /\ caller' = [caller EXCEPT ![t].pc = "store"]
    /\ UNCHANGED attrs
    /\ MonitorUnchanged

\* monitor_folders._observer = observer
MonitorFoldersStoreObserver(t) ==
    /\ caller[t].pc = "store"
    /\ attrs' = [attrs EXCEPT !.observer = caller[t].observer]
    /\ caller' = [caller EXCEPT ![t].pc = "store_thread"]
    /\ UNCHANGED observers
    /\ MonitorUnchanged

\* monitor_folders._thread = thread; return thread
MonitorFoldersStoreThread(t) ==
    /\ caller[t].pc = "store_thread"
    /\ attrs' = [attrs EXCEPT !.thread = caller[t].observer]
    /\ caller' = [caller EXCEPT ![t].pc = "idle", ![t].returned = <<caller[t].observer>>]
    /\ UNCHANGED observers
    /\ MonitorUnchanged

\* monitor(): KeyboardInterrupt, observer.stop(), observer.join()
MonitorInterrupted(o) ==
    /\ o \in AliveObservers
    /\ observers[o].thread
    /\ observers' = [observers EXCEPT ![o].alive = FALSE]
    /\ UNCHANGED <<attrs, caller>>
    /\ MonitorUnchanged

\* a running observer gives its handler a creation event, which the handler takes:
\* on_created calls the callback the observer's call was given
ObserverEvent(o, file_path) ==
    /\ o \in AliveObservers
    /\ Len(invoked) < MaxEvents
    /\ invoked' = Append(invoked, Invocation(observers[o].callback, file_path, wall))
    /\ UNCHANGED <<last_processed, lock, handler, wall>>
    /\ UNCHANGED <<core, monitor, index>>

MonitorNext ==
    \/ \E t \in Threads :
          \/ MonitorFoldersCheck(t)
          \/ MonitorFoldersReturnActive(t)
          \/ MonitorFoldersStartObserver(t)
          \/ MonitorFoldersStartThread(t)
          \/ MonitorFoldersStoreObserver(t)
          \/ MonitorFoldersStoreThread(t)
    \/ \E o \in ObserverIds :
          \/ MonitorInterrupted(o)
          \/ \E file_path \in WatchedPaths : ObserverEvent(o, file_path)

MonitorSpec == Init /\ [][MonitorNext]_vars

-----------------------------------------------------------------------------
(* The orchestrator (src/main.py): IMReconciliationOrchestrator.process_new_file, called *)
(* for one file after the other by process_existing_files, and the semantic index it     *)
(* writes to (src/rag/vector_store.py). A collection is the set of the ids of its        *)
(* documents; wall is the clock in whole seconds, which is all that                       *)
(* strftime('%Y%m%d_%H%M%S') keeps of datetime.now().                                     *)

\* f"reconciliation_{datetime.now().strftime('%Y%m%d_%H%M%S')}"
reconciliation_doc_id(second) ==
    [prefix |-> "reconciliation", file_type |-> "", second |-> second]

\* f"file_{file_type}_{datetime.now().strftime('%Y%m%d_%H%M%S')}"
file_doc_id(file_type, second) ==
    [prefix |-> "file", file_type |-> file_type, second |-> second]

\* collection.add(documents=[...], ids=[doc_id], metadatas=[...]): a document is stored
\* under a new id; an id the collection has is not stored again
collection_added(ids, doc_id) == ids \cup {doc_id}

\* what collection.add does with an id the collection has depends on the chromadb at
\* hand: it raises, and add_file_data / add_reconciliation_result log and return None,
\* or it leaves the document out and returns
AddOutcomes(ids, doc_id) ==
    IF doc_id \in ids THEN {"raised", "ignored"} ELSE {"stored"}

\* one document handed to the index
Handed(collection, doc_id, outcome) ==
    [collection |-> collection, doc_id |-> doc_id, outcome |-> outcome]

Seconds == wall..MaxWall

\* process_new_file: process_file_for_reconciliation returned {'error': ...}; return
ProcessNewFileError(file) == ProcessFileNoParser(file)

\* process_new_file: process_file_for_reconciliation, then add_file_data(parsed_data) at
\* second s1 and add_reconciliation_result(reconciliation_result) at second s2, then
\* persist_vector_store()
ProcessNewFileIndexed(file, now, s1, s2) ==
    LET parsed_data == Parse(get_file_parser(file.file_path), file)
        file_id == file_doc_id(parsed_data.file_type, s1)
        report_id == reconciliation_doc_id(s2)
    IN
    /\ get_file_parser(file.file_path) # "None"
    /\ Len(reconciliation_history) < MaxHistory
    /\ s1 <= s2
    /\ trade_data' = trade_data_added(trade_data, parsed_data)
    /\ ack_data' = ack_data_added(ack_data, parsed_data)
    /\ error_data' = error_data_added(error_data, parsed_data)
    /\ reconciliation_history' =
           history_reconciled(reconciliation_history,
               ReconciliationResults(trade_data', ack_data', error_data', now))
    /\ result' = Returned("processed",
                          <<ReconciliationResults(trade_data', ack_data', error_data', now)>>,
                          <<parsed_data>>, AddLogged(parsed_data))
    /\ clock' = now
    /\ stale' = FALSE
    /\ wall' = s2
    /\ collections' =
           [collections EXCEPT
               !["im_file_data"] = collection_added(@, file_id),
               !["im_reconciliation_results"] = collection_added(@, report_id)]
    /\ \E o1 \in AddOutcomes(collections["im_file_data"], file_id),
          o2 \in AddOutcomes(collections["im_reconciliation_results"], report_id) :
          handed' = <<Handed("im_file_data", file_id, o1),
                      Handed("im_reconciliation_results", report_id, o2)>>
    /\ UNCHANGED <<test_pc, pc, local, last_processed, lock, handler, invoked, monitor>>

\* process_new_file(file_path)
process_new_file(file, now, s1, s2) ==
    \/ ProcessNewFileError(file)
    \/ ProcessNewFileIndexed(file, now, s1, s2)

IndexNext ==
    \/ \E file \in SmallFiles, now \in Instants, s1 \in Seconds, s2 \in Seconds :
          process_new_file(file, now, s1, s2)
    \/ TimePasses

IndexSpec == Init /\ [][IndexNext]_vars

-----------------------------------------------------------------------------
(* Properties *)

Reports == Range(reconciliation_history)

Latest == reconciliation_history[Len(reconciliation_history)]

\* the report the test script got from reconcile_all
TestReport == result.reports[1]

\* every stored trade record / acknowledgment entry
StoredTrades == UNION {Range(trade_data[i].trades) : i \in 1..Len(trade_data)}
StoredAcks == UNION {Range(ack_data[i].acknowledgments) : i \in 1..Len(ack_data)}

\* T: the non-empty TradeIDs over all stored trade extracts
SentIds == {t.TradeID : t \in StoredTrades} \ {""}

\* the TradeIDs, empty ones included, of the stored entries with the given Status
IdsWithStatus(status) == {a.TradeID : a \in {x \in StoredAcks : x.Status = status}}

\* the entries of the given type in a report's discrepancies
OfType(r, type) == {i \in 1..Len(r.discrepancies) : r.discrepancies[i].type = type}

\* a discrepancy of the type with exactly these ids is in the report iff there are any
ListsExactly(r, type, ids) ==
    IF ids = {} THEN OfType(r, type) = {}
    ELSE /\ Cardinality(OfType(r, type)) = 1
         /\ \A i \in OfType(r, type) : r.discrepancies[i].trade_ids = ids

OnlyTheTwoTypes(r) ==
    \A i \in 1..Len(r.discrepancies) :
        r.discrepancies[i].type \in {"missing_acknowledgments", "unexpected_acknowledgments"}

\* C1 as stated: with T the non-empty sent TradeIDs, A the TradeIDs of the stored ACK
\* entries and N those of the NACK entries, the report lists T - A - N as
\* missing_acknowledgments and (A u N) - T as unexpected_acknowledgments, each iff it is
\* non-empty, and nothing else.
C1_AsStated ==
    test_pc = "reconciled" =>
        LET A == IdsWithStatus("ACK")
            N == IdsWithStatus("NACK")
        IN /\ ListsExactly(TestReport, "missing_acknowledgments", (SentIds \ A) \ N)
           /\ ListsExactly(TestReport, "unexpected_acknowledgments", (A \cup N) \ SentIds)
           /\ OnlyTheTwoTypes(TestReport)

\* C1 amended: the same with A and N holding only the non-empty TradeIDs of the ACK and
\* NACK entries: an acknowledgment entry with an empty TradeID is in neither set.
C1_Discrepancies ==
    test_pc = "reconciled" =>
        LET A == IdsWithStatus("ACK") \ {""}
            N == IdsWithStatus("NACK") \ {""}
        IN /\ ListsExactly(TestReport, "missing_acknowledgments", (SentIds \ A) \ N)
           /\ ListsExactly(TestReport, "unexpected_acknowledgments", (A \cup N) \ SentIds)
           /\ OnlyTheTwoTypes(TestReport)

\* a report that lists both discrepancies, from a store with an empty-id ACK entry
C1_Witness ==
    /\ test_pc = "reconciled"
    /\ Len(TestReport.discrepancies) = 2
    /\ "" \in IdsWithStatus("ACK")

\* C2: the status of every report is the first match over the report's own counts:
\* no trades sent; else nothing missing and no errors; else something missing; else
\* transform errors; else ORE errors.
StatusFollowsCounts(r) ==
    LET s == r.summary
        sent == s.total_trades_sent
        missing == s.missing_acknowledgments
    IN /\ sent = 0 => s.reconciliation_status = "NO_TRADES"
       /\ (sent # 0 /\ missing = 0 /\ s.transform_errors = 0 /\ s.ore_errors = 0)
             => s.reconciliation_status = "FULLY_RECONCILED"
       /\ (sent # 0 /\ missing > 0) => s.reconciliation_status = "MISSING_ACKNOWLEDGMENTS"
       /\ (sent # 0 /\ missing = 0 /\ s.transform_errors > 0)
             => s.reconciliation_status = "TRANSFORM_ERRORS"
       /\ (sent # 0 /\ missing = 0 /\ s.transform_errors = 0 /\ s.ore_errors > 0)
             => s.reconciliation_status = "ORE_ERRORS"

C2_Status == \A r \in Reports : StatusFollowsCounts(r)

\* something missing while transform and ORE errors are present: MISSING_ACKNOWLEDGMENTS
C2_Witness ==
    /\ test_pc = "reconciled"
    /\ TestReport.summary.missing_acknowledgments > 0
    /\ TestReport.summary.transform_errors > 0
    /\ TestReport.summary.ore_errors > 0
    /\ TestReport.summary.reconciliation_status = "MISSING_ACKNOWLEDGMENTS"

\* the report of a store with no entry in any mapping
FromEmptyStore(r) == r.trade_files = <<>> /\ r.ack_files = <<>> /\ r.error_files = <<>>

\* C3: reconcile_all can be called in every store state and returns a report, and the
\* report of an empty store has status NO_TRADES, every count 0, no discrepancy and no
\* error group.
C3_EmptyStore ==
    /\ Len(reconciliation_history) < MaxHistory
          => ENABLED (\E now \in Instants : CallReconcileAll(now))
    /\ \A r \in Reports :
          FromEmptyStore(r) =>
             /\ r.summary = [total_trades_sent |-> 0, total_acknowledgments |-> 0,
                             total_nacknowledgments |-> 0, missing_acknowledgments |-> 0,
                             transform_errors |-> 0, ore_errors |-> 0,
                             reconciliation_status |-> "NO_TRADES"]
             /\ r.discrepancies = <<>>
             /\ r.errors = <<>>

\* reconcile_all on a full store, clear_data, reconcile_all again
C3_Witness ==
    /\ Len(reconciliation_history) = 2
    /\ Len(reconciliation_history[1].trade_files) = 1
    /\ Len(reconciliation_history[1].ack_files) = 1
    /\ Len(reconciliation_history[1].error_files) = 1
    /\ FromEmptyStore(reconciliation_history[2])
    /\ result = Returned("report", <<reconciliation_history[2]>>, <<>>, "")

Recognised == {"trade_extract", "acknowledgment", "transform_failure", "ore_error"}

\* the mapping add_file_data routes a record of this kind to, among the three given
MappingOf(file_type, td, ad, ed) ==
    CASE file_type = "trade_extract" -> td
      [] file_type = "acknowledgment" -> ad
      [] OTHER -> ed

\* new is old with the entry of v's file_path set to v and every other entry as it was
SetsOnly(old, new, v) ==
    /\ Cardinality({i \in 1..Len(new) : new[i].file_path = v.file_path}) = 1
    /\ Lookup(new, v.file_path) = v
    /\ KeySet(new) = KeySet(old) \cup {v.file_path}
    /\ \A k \in KeySet(old) \ {v.file_path} : Lookup(new, k) = Lookup(old, k)

\* the entry of file_path in d alone, or no entry
EntryOf(d, file_path) ==
    IF file_path \in KeySet(d) THEN <<Lookup(d, file_path)>> ELSE <<>>

\* C4: add_file_data with an error-free record of a recognised kind sets the entry of its
\* file_path in the mapping of its kind to the record, in place of any earlier entry, and
\* changes no other entry of the three mappings; the counts of the next report hold the
\* new record's trades and acknowledgments in place of those of the entry replaced.
C4_Replaces ==
    [][\A d \in TestInputs :
          (TestAddFileData(d) /\ ~d.has_error /\ d.file_type \in Recognised) =>
             /\ SetsOnly(MappingOf(d.file_type, trade_data, ack_data, error_data),
                         MappingOf(d.file_type, trade_data', ack_data', error_data'), d)
             /\ d.file_type # "trade_extract" => trade_data' = trade_data
             /\ d.file_type # "acknowledgment" => ack_data' = ack_data
             /\ d.file_type \notin {"transform_failure", "ore_error"}
                   => error_data' = error_data
             /\ Summary(trade_data', ack_data', error_data').total_trades_sent
                   = total_trades_sent(trade_data)
                     + (IF d.file_type = "trade_extract"
                        THEN Len(d.trades)
                             - total_trades_sent(EntryOf(trade_data, d.file_path))
                        ELSE 0)
             /\ Summary(trade_data', ack_data', error_data').total_acknowledgments
                   = total_acks(ack_data)
                     + (IF d.file_type = "acknowledgment"
                        THEN total_acks(<<d>>) - total_acks(EntryOf(ack_data, d.file_path))
                        ELSE 0)
      ]_vars

\* two trade sources stored, and one path holding a trade entry and an acknowledgment entry
C4_Witness ==
    /\ test_pc = "added"
    /\ Len(trade_data) = 2
    /\ "TRADE_EXTRACT_1.csv" \in KeySet(ack_data)
    /\ error_data # <<>>
    /\ result.logged = "info: Added"

NoMappingChanges == UNCHANGED <<trade_data, ack_data, error_data>>

\* C5: add_file_data with a record that carries a parse error returns normally and leaves
\* the three mappings as they were, also when the record comes from a parser inside
\* process_file_for_reconciliation; no stored record ever carries a parse error.
C5_ErrorRecords ==
    /\ [](\A d \in Range(trade_data) \cup Range(ack_data) \cup Range(error_data) :
             ~d.has_error)
    /\ [][/\ \A d \in SmallInputs :
                (CallAddFileData(d) /\ d.has_error) =>
                    NoMappingChanges /\ result'.kind = "None"
          /\ \A file \in SmallFiles, now \in Instants :
                (ProcessFileParsed(file, now)
                 /\ Parse(get_file_parser(file.file_path), file).has_error) =>
                    NoMappingChanges /\ result'.kind = "processed"
         ]_vars

\* an erroneous record was just given to an engine that holds data
C5_Witness ==
    /\ trade_data # <<>>
    /\ ack_data = <<>>
    /\ result = Returned("None", <<>>, <<>>, "error: has parsing errors")

\* C6: add_file_data with a record of no recognised kind, a missing kind included, returns
\* normally and leaves the three mappings as they were.
C6_UnknownKind ==
    [][\A d \in TestInputs :
          (TestAddFileData(d) /\ ~d.has_error /\ d.file_type \notin Recognised) =>
              NoMappingChanges /\ result'.kind = "None"
      ]_vars

\* only records of unknown kind were given: nothing is stored, the last call logged "Added"
C6_Witness ==
    /\ test_pc = "added"
    /\ trade_data = <<>> /\ ack_data = <<>> /\ error_data = <<>>
    /\ result = Returned("None", <<>>, <<>>, "info: Added")

\* a step that is one call of reconcile_all
ReconcileAllCalled == \E now \in Instants : CallReconcileAll(now)

\* a step that is one ingestion: add_file_data then reconcile_all in
\* process_file_for_reconciliation
FileIngested == \E file \in SmallFiles, now \in Instants : ProcessFileParsed(file, now)

\* C8 as stated: reconcile_all only computes and returns the report and leaves the
\* history as it is.
C8_AsStated == [][ReconcileAllCalled => UNCHANGED reconciliation_history]_vars

\* C8 amended: reconcile_all itself appends the report it returns to the history, as its
\* last entry; process_file_for_reconciliation, its caller, appends nothing more, and no
\* other method of the engine changes the history.
C8_AppendsItself ==
    [][/\ ReconcileAllCalled =>
             /\ result'.kind = "report"
             /\ reconciliation_history' = Append(reconciliation_history, result'.reports[1])
       /\ FileIngested =>
             reconciliation_history' = Append(reconciliation_history, result'.reports[1])
       /\ ~(ReconcileAllCalled \/ FileIngested) => UNCHANGED reconciliation_history
      ]_vars

\* reconcile_all has just returned the report that is now last in the history
C8_Witness ==
    /\ Len(reconciliation_history) = 2
    /\ result = Returned("report", <<Latest>>, <<>>, "")
    /\ ~stale

\* the two reports agree in every field but timestamp
SameButTimestamp(r1, r2) == [r1 EXCEPT !.timestamp = 0] = [r2 EXCEPT !.timestamp = 0]

\* C9: a reconcile_all that follows an earlier one with no add_file_data and no clear_data
\* in between returns a report equal to the earlier one in every field but timestamp.
C9_Idempotent ==
    [][(ReconcileAllCalled /\ ~stale /\ reconciliation_history # <<>>) =>
           SameButTimestamp(Latest, result'.reports[1])
      ]_vars

\* two reports of a store with data, taken one after the other at different instants
C9_Witness ==
    /\ Len(reconciliation_history) = 2
    /\ ~stale
    /\ result.kind = "report"
    /\ reconciliation_history[1].timestamp # reconciliation_history[2].timestamp
    /\ SameButTimestamp(reconciliation_history[1], reconciliation_history[2])
    /\ reconciliation_history[2].summary.total_trades_sent = 2
    /\ reconciliation_history[2].errors # <<>>

\* C10: no step shortens the history or changes a report in it, and one ingestion of a
\* file appends exactly one report, whatever the number of trades in the file.
C10_AppendOnly ==
    [][/\ Len(reconciliation_history') >= Len(reconciliation_history)
       /\ SubSeq(reconciliation_history', 1, Len(reconciliation_history))
             = reconciliation_history
       /\ FileIngested => Len(reconciliation_history') = Len(reconciliation_history) + 1
      ]_vars

\* a file with two trades was ingested after an earlier report: one more report
C10_Witness ==
    /\ Len(reconciliation_history) = 2
    /\ result.kind = "processed"
    /\ Len(result.parsed[1].trades) = 2
    /\ result.reports[1] = Latest
    /\ reconciliation_history[1] # reconciliation_history[2]

\* C11: clear_data empties the three mappings and leaves the history as it is: the same
\* reports in the same order, and get_latest_reconciliation returns after the call what
\* it returned before it.
C11_ClearKeepsHistory ==
    [][CallClearData =>
          /\ trade_data' = <<>> /\ ack_data' = <<>> /\ error_data' = <<>>
          /\ Len(reconciliation_history') = Len(reconciliation_history)
          /\ \A i \in 1..Len(reconciliation_history) :
                reconciliation_history'[i] = reconciliation_history[i]
          /\ get_latest_reconciliation' = get_latest_reconciliation
      ]_vars

\* after a report of a store with data the store was cleared, and get_latest_reconciliation
\* then returned that report
C11_Witness ==
    /\ trade_data = <<>> /\ ack_data = <<>> /\ error_data = <<>>
    /\ stale
    /\ reconciliation_history # <<>>
    /\ Latest.summary.total_trades_sent = 2
    /\ result = Returned("report", <<Latest>>, <<>>, "")

\* C12: get_latest_reconciliation can be called in every state; it returns the report
\* appended last when the history has one, and the empty dict when it has none.
\* get_reconciliation_history returns every report, the i-th appended at position i: each
\* report is appended behind the ones before it.
C12_Readers ==
    /\ [](ENABLED CallGetLatestReconciliation /\ ENABLED CallGetReconciliationHistory)
    /\ [][/\ CallGetLatestReconciliation =>
                IF Len(reconciliation_history) > 0
                THEN /\ result'.kind = "report"
                     /\ result'.reports = <<reconciliation_history[Len(reconciliation_history)]>>
                ELSE /\ result'.kind = "empty_dict"
                     /\ result'.reports = <<>>
          /\ CallGetReconciliationHistory =>
                /\ result'.kind = "list"
                /\ Len(result'.reports) = Len(reconciliation_history)
                /\ \A i \in 1..Len(reconciliation_history) :
                      result'.reports[i] = reconciliation_history[i]
          /\ (ReconcileAllCalled \/ FileIngested) =>
                /\ Len(reconciliation_history') = Len(reconciliation_history) + 1
                /\ reconciliation_history'[Len(reconciliation_history')] = result'.reports[1]
         ]_vars

\* two different reports in the history, data added since, and get_latest_reconciliation
\* returned the second
C12_Witness ==
    /\ Len(reconciliation_history) = 2
    /\ reconciliation_history[1].summary # reconciliation_history[2].summary
    /\ stale
    /\ trade_data # <<>>
    /\ result = Returned("report", <<reconciliation_history[2]>>, <<>>, "")

\* the number of entries of a list of acknowledgments with the given Status
CountStatus(acks, status) == Cardinality({i \in 1..Len(acks) : acks[i].Status = status})

\* two files were ingested by a fresh engine: a trade extract, then an acknowledgment
\* file; no other file was
ExtractThenAcks ==
    /\ Len(reconciliation_history) = 2
    /\ Len(reconciliation_history[1].trade_files) = 1
    /\ reconciliation_history[1].ack_files = <<>>
    /\ Len(trade_data) = 1 /\ Len(ack_data) = 1 /\ error_data = <<>>
    /\ result.kind = "processed"
    /\ result.parsed = <<ack_data[1]>>

\* the acknowledgment file answers every sent trade with ACK or NACK and holds nothing else
AnswersEverySentTrade(trades, acks) ==
    /\ \A i \in 1..Len(trades) : \E j \in 1..Len(acks) :
          acks[j].TradeID = trades[i].TradeID /\ acks[j].Status \in {"ACK", "NACK"}
    /\ \A j \in 1..Len(acks) :
          /\ acks[j].Status \in {"ACK", "NACK"}
          /\ \E i \in 1..Len(trades) : trades[i].TradeID = acks[j].TradeID

\* the report counts the trades and the ACK and NACK entries, misses nothing, is
\* FULLY_RECONCILED and lists no discrepancy
FullyReconciledReport(r, trades, acks) ==
    /\ r.summary.total_trades_sent = Len(trades)
    /\ r.summary.total_acknowledgments = CountStatus(acks, "ACK")
    /\ r.summary.total_nacknowledgments = CountStatus(acks, "NACK")
    /\ r.summary.missing_acknowledgments = 0
    /\ r.summary.reconciliation_status = "FULLY_RECONCILED"
    /\ r.discrepancies = <<>>

\* C13 as stated: a trade extract, then an acknowledgment file that answers every sent
\* trade with ACK or NACK, ingested by a fresh engine, give a FULLY_RECONCILED report that
\* counts the trades, the ACK entries and the NACK entries and has no discrepancy, for an
\* extract of any number of trades.
C13_AsStated ==
    (ExtractThenAcks
     /\ AnswersEverySentTrade(trade_data[1].trades, ack_data[1].acknowledgments))
       => FullyReconciledReport(result.reports[1], trade_data[1].trades,
                                ack_data[1].acknowledgments)

\* C13 amended: the same for an extract that holds at least one trade record; the report
\* of an extract with no record has status NO_TRADES. For trades [T001, T002] and
\* acknowledgments [T001 ACK, T002 NACK] the counts are 2, 1, 1, 0.
C13_Scenario ==
    /\ (ExtractThenAcks
        /\ Len(trade_data[1].trades) >= 1
        /\ AnswersEverySentTrade(trade_data[1].trades, ack_data[1].acknowledgments))
          => FullyReconciledReport(result.reports[1], trade_data[1].trades,
                                   ack_data[1].acknowledgments)
    /\ (ExtractThenAcks
        /\ Len(trade_data[1].trades) = 0
        /\ AnswersEverySentTrade(trade_data[1].trades, ack_data[1].acknowledgments))
          => result.reports[1].summary.reconciliation_status = "NO_TRADES"
    /\ (ExtractThenAcks
        /\ trade_data[1].trades = <<Trade("T001"), Trade("T002")>>
        /\ ack_data[1].acknowledgments = <<Ack("T001", "ACK"), Ack("T002", "NACK")>>)
          => /\ result.reports[1].summary.total_trades_sent = 2
             /\ result.reports[1].summary.total_acknowledgments = 1
             /\ result.reports[1].summary.total_nacknowledgments = 1
             /\ result.reports[1].summary.missing_acknowledgments = 0
             /\ result.reports[1].summary.reconciliation_status = "FULLY_RECONCILED"
             /\ result.reports[1].discrepancies = <<>>

\* the extract [T001, T002] was ingested and reported as missing its acknowledgments, then
\* the file [T001 ACK, T002 NACK]
C13_Witness ==
    /\ ExtractThenAcks
    /\ trade_data[1].trades = <<Trade("T001"), Trade("T002")>>
    /\ ack_data[1].acknowledgments = <<Ack("T001", "ACK"), Ack("T002", "NACK")>>
    /\ reconciliation_history[1].summary.reconciliation_status = "MISSING_ACKNOWLEDGMENTS"
    /\ result.reports[1] = reconciliation_history[2]

\* one file was ingested by a fresh engine, a trade extract
ExtractOnly ==
    /\ Len(reconciliation_history) = 1
    /\ Len(trade_data) = 1 /\ ack_data = <<>> /\ error_data = <<>>
    /\ result.kind = "processed"
    /\ result.parsed = <<trade_data[1]>>

\* C14: a trade extract with n >= 1 distinct non-empty TradeIDs, ingested alone by a fresh
\* engine, gives missing_acknowledgments = n, status MISSING_ACKNOWLEDGMENTS and one
\* discrepancy, of type missing_acknowledgments, with exactly those ids and count n; for
\* [T001, T002] that is 2 and {T001, T002}.
C14_ExtractOnly ==
    /\ (ExtractOnly /\ Cardinality(SentIds) >= 1) =>
          /\ result.reports[1].summary.missing_acknowledgments = Cardinality(SentIds)
          /\ result.reports[1].summary.reconciliation_status = "MISSING_ACKNOWLEDGMENTS"
          /\ result.reports[1].discrepancies
                = <<[type |-> "missing_acknowledgments", trade_ids |-> SentIds,
                     count |-> Cardinality(SentIds)]>>
    /\ (ExtractOnly /\ trade_data[1].trades = <<Trade("T001"), Trade("T002")>>) =>
          /\ result.reports[1].summary.missing_acknowledgments = 2
          /\ result.reports[1].discrepancies[1].trade_ids = {"T001", "T002"}

\* the extract holds T001 twice and a record with no TradeID: n = 1
C14_Witness ==
    /\ ExtractOnly
    /\ Len(trade_data[1].trades) = 3
    /\ SentIds = {"T001"}
    /\ result.reports[1] = reconciliation_history[1]

\* one file was ingested by a fresh engine, an acknowledgment file whose entries are all
\* for T999, each ACK or NACK
AcksForT999Only ==
    /\ Len(reconciliation_history) = 1
    /\ trade_data = <<>> /\ Len(ack_data) = 1 /\ error_data = <<>>
    /\ result.kind = "processed"
    /\ result.parsed = <<ack_data[1]>>
    /\ ack_data[1].acknowledgments # <<>>
    /\ \A a \in Range(ack_data[1].acknowledgments) :
          a.TradeID = "T999" /\ a.Status \in {"ACK", "NACK"}

\* C15: an acknowledgment file for T999, ACK or NACK, ingested alone by a fresh engine with
\* no trade extract, gives exactly one discrepancy: unexpected_acknowledgments, {T999},
\* count 1.
C15_Unexpected ==
    AcksForT999Only =>
        result.reports[1].discrepancies
           = <<[type |-> "unexpected_acknowledgments", trade_ids |-> {"T999"}, count |-> 1]>>

\* the file holds a NACK for T999 and no ACK
C15_Witness ==
    /\ AcksForT999Only
    /\ ack_data[1].acknowledgments = <<Ack("T999", "NACK")>>
    /\ result.reports[1] = reconciliation_history[1]

\* the report counts nothing missing, two transform errors and no ORE error
TwoTransformErrorsOnly(r) ==
    /\ r.summary.missing_acknowledgments = 0
    /\ r.summary.transform_errors = 2
    /\ r.summary.ore_errors = 0

\* C16 as stated: every report with missing_acknowledgments = 0, transform_errors = 2 and
\* ore_errors = 0 has status TRANSFORM_ERRORS.
C16_AsStated ==
    \A r \in Reports :
        TwoTransformErrorsOnly(r) => r.summary.reconciliation_status = "TRANSFORM_ERRORS"

\* C16 amended: every such report that counts at least one trade sent has status
\* TRANSFORM_ERRORS; one that counts no trade sent has status NO_TRADES. None has status
\* PARTIALLY_RECONCILED.
C16_Precedence ==
    \A r \in Reports :
        TwoTransformErrorsOnly(r) =>
            /\ r.summary.total_trades_sent >= 1
                  => r.summary.reconciliation_status = "TRANSFORM_ERRORS"
            /\ r.summary.total_trades_sent = 0
                  => r.summary.reconciliation_status = "NO_TRADES"
            /\ r.summary.reconciliation_status # "PARTIALLY_RECONCILED"

\* trades sent and all answered, one transform-failure file with two errors
C16_Witness ==
    /\ test_pc = "reconciled"
    /\ TwoTransformErrorsOnly(TestReport)
    /\ TestReport.summary.total_trades_sent = 2
    /\ TestReport.summary.reconciliation_status = "TRANSFORM_ERRORS"

\* the trade records stored: source i, record j
TradePositions ==
    UNION {{<<i, j>> : j \in 1..Len(trade_data[i].trades)} : i \in 1..Len(trade_data)}

\* the ids a report lists under the discrepancies of a type
ListedIds(r, type) == UNION {r.discrepancies[i].trade_ids : i \in OfType(r, type)}

\* C17: total_trades_sent is the number of trade records over all stored trade sources,
\* a TradeID counted once for each record that has it; the trade universe holds each
\* non-empty TradeID once: with nothing acknowledged the missing count is the number of
\* distinct non-empty TradeIDs, and every discrepancy's count is the number of its ids.
C17_CountsRecords ==
    test_pc = "reconciled" =>
        /\ TestReport.summary.total_trades_sent = Cardinality(TradePositions)
        /\ TestReport.summary.missing_acknowledgments <= Cardinality(SentIds)
        /\ ack_data = <<>> =>
              /\ TestReport.summary.missing_acknowledgments = Cardinality(SentIds)
              /\ ListedIds(TestReport, "missing_acknowledgments") = SentIds
        /\ \A i \in 1..Len(TestReport.discrepancies) :
              TestReport.discrepancies[i].count
                 = Cardinality(TestReport.discrepancies[i].trade_ids)

\* two sources with four records and two distinct ids, one source holding T1 twice
C17_Witness ==
    /\ test_pc = "reconciled"
    /\ Len(trade_data) = 2
    /\ ack_data = <<>>
    /\ TestReport.summary.total_trades_sent = 4
    /\ TestReport.summary.missing_acknowledgments = 2
    /\ \E i \in 1..2 : trade_data[i].trades = <<Trade("T1"), Trade("T1")>>

\* the acknowledgment entries stored with the given Status: source i, entry j
AckPositions(status) ==
    UNION {{<<i, j>> : j \in {k \in 1..Len(ack_data[i].acknowledgments) :
                                 ack_data[i].acknowledgments[k].Status = status}} :
           i \in 1..Len(ack_data)}

\* C18: total_acknowledgments and total_nacknowledgments are the numbers of stored
\* acknowledgment entries with Status ACK and NACK, an id counted once for each entry; an
\* entry with another Status is in neither count, and its trade is neither acknowledged
\* nor nacked by it: if sent and answered by no ACK or NACK entry it is listed as missing,
\* and if not sent it is not listed as unexpected.
C18_CountsEntries ==
    test_pc = "reconciled" =>
        /\ TestReport.summary.total_acknowledgments = Cardinality(AckPositions("ACK"))
        /\ TestReport.summary.total_nacknowledgments = Cardinality(AckPositions("NACK"))
        /\ \A a \in StoredAcks :
              (a.Status \notin {"ACK", "NACK"}
               /\ a.TradeID \notin IdsWithStatus("ACK") \cup IdsWithStatus("NACK")) =>
                  /\ a.TradeID \in SentIds
                        => a.TradeID \in ListedIds(TestReport, "missing_acknowledgments")
                  /\ a.TradeID \notin ListedIds(TestReport, "unexpected_acknowledgments")

\* T1 acknowledged twice in one file, and a PENDING entry for the sent trade T2
C18_Witness ==
    /\ test_pc = "reconciled"
    /\ Len(ack_data) = 2
    /\ TestReport.summary.total_acknowledgments = 3
    /\ TestReport.summary.total_nacknowledgments = 0
    /\ Ack("T2", "PENDING") \in StoredAcks
    /\ ListedIds(TestReport, "missing_acknowledgments") = {"T2"}

\* the entries an error source of a kind gives to the kind's aggregate
ItemsOf(d, file_type) ==
    IF d.file_type # file_type THEN <<>>
    ELSE IF file_type = "transform_failure" THEN d.errors ELSE d.ore_errors

\* the entries of the sources of a kind stored before source i: source k, entry j
ItemsBefore(i, file_type) ==
    UNION {{<<k, j>> : j \in 1..Len(ItemsOf(error_data[k], file_type))} : k \in 1..(i - 1)}

\* agg holds the entries of every stored source of the kind, source after source
IsConcatenation(agg, file_type) ==
    /\ Len(agg) = Cardinality(ItemsBefore(Len(error_data) + 1, file_type))
    /\ \A i \in 1..Len(error_data) :
          \A j \in 1..Len(ItemsOf(error_data[i], file_type)) :
              agg[Cardinality(ItemsBefore(i, file_type)) + j]
                 = ItemsOf(error_data[i], file_type)[j]

\* the error-group entries of a type in a report
GroupsOf(r, type) == {i \in 1..Len(r.errors) : r.errors[i].type = type}

\* the report has one group of the type, holding the concatenation and its length, when
\* the kind has entries, and no group of the type when it has none; n is the summary count
Aggregated(r, type, file_type, n) ==
    /\ n = Cardinality(ItemsBefore(Len(error_data) + 1, file_type))
    /\ IF n = 0 THEN GroupsOf(r, type) = {}
       ELSE /\ Cardinality(GroupsOf(r, type)) = 1
            /\ \A i \in GroupsOf(r, type) :
                  /\ DOMAIN r.errors[i] = {"type", "errors", "count"}
                  /\ IsConcatenation(r.errors[i].errors, file_type)
                  /\ r.errors[i].count = n

\* C19: the transform-error aggregate is the concatenation of the errors of the stored
\* transform-failure sources, the ORE aggregate that of the entries of the stored
\* ore_error sources; summary.transform_errors and summary.ore_errors are their lengths,
\* and the report has exactly one error group {type, errors, count} for each aggregate
\* that is not empty and none for one that is empty.
C19_ErrorAggregates ==
    test_pc = "reconciled" =>
        /\ Aggregated(TestReport, "transform_failures", "transform_failure",
                      TestReport.summary.transform_errors)
        /\ Aggregated(TestReport, "ore_errors", "ore_error", TestReport.summary.ore_errors)
        /\ \A i \in 1..Len(TestReport.errors) :
              TestReport.errors[i].type \in {"transform_failures", "ore_errors"}

\* two ore_error sources, the one stored first giving the entry listed first
C19_Witness ==
    /\ test_pc = "reconciled"
    /\ Len(error_data) = 2
    /\ TestReport.summary.ore_errors = 2
    /\ TestReport.summary.transform_errors = 0
    /\ TestReport.errors = <<[type |-> "ore_errors", errors |-> <<"o2", "o1">>, count |-> 2]>>

\* the report r lists the files and counts the records of the store as it is now
ReportOfStore(r) ==
    /\ r.trade_files = [i \in 1..Len(trade_data) |-> trade_data[i].file_path]
    /\ r.ack_files = [i \in 1..Len(ack_data) |-> ack_data[i].file_path]
    /\ r.error_files = [i \in 1..Len(error_data) |-> error_data[i].file_path]
    /\ r.summary.total_trades_sent = Cardinality(TradePositions)
    /\ r.summary.total_acknowledgments = Cardinality(AckPositions("ACK"))
    /\ r.summary.total_nacknowledgments = Cardinality(AckPositions("NACK"))
    /\ r.summary.missing_acknowledgments
          = Cardinality((SentIds \ IdsWithStatus("ACK")) \ IdsWithStatus("NACK"))
    /\ r.summary.transform_errors
          = Cardinality(ItemsBefore(Len(error_data) + 1, "transform_failure"))
    /\ r.summary.ore_errors = Cardinality(ItemsBefore(Len(error_data) + 1, "ore_error"))

\* the report just returned is the report of the store as it is now
ReturnedReportOfStore == ReportOfStore(result.reports[1])

\* C20: reconcile_all, get_latest_reconciliation and get_reconciliation_history leave the
\* three mappings as they are; a step that changes a mapping is add_file_data, clear_data
\* or the add_file_data of an ingestion; and every report returned lists and counts the
\* store as it is when reconcile_all runs, whatever the reports before it.
C20_StoreFrame ==
    [][/\ (ReconcileAllCalled \/ CallGetLatestReconciliation \/ CallGetReconciliationHistory)
             => NoMappingChanges
       /\ ~NoMappingChanges =>
             \/ \E d \in SmallInputs : CallAddFileData(d)
             \/ CallClearData
             \/ FileIngested
       /\ (ReconcileAllCalled \/ FileIngested) => ReturnedReportOfStore'
      ]_vars

\* a report of the empty store, then data added and a report of it, the data still stored
C20_Witness ==
    /\ Len(reconciliation_history) = 2
    /\ FromEmptyStore(reconciliation_history[1])
    /\ reconciliation_history[2].summary.total_trades_sent = 2
    /\ reconciliation_history[2].summary.total_acknowledgments = 1
    /\ Len(trade_data) = 1 /\ Len(ack_data) = 1
    /\ ~stale
    /\ result = Returned("report", <<reconciliation_history[2]>>, <<>>, "")

\* every record in the three mappings
StoredRecords == Range(trade_data) \cup Range(ack_data) \cup Range(error_data)

\* the sequences that hold each element of S exactly once
Orderings(S) ==
    {seq \in [1..Cardinality(S) -> S] : \A x \in S : \E i \in 1..Cardinality(S) : seq[i] = x}

RECURSIVE StoreAfter(_, _)
\* the three mappings after add_file_data for each record of seq in turn, from store
StoreAfter(seq, store) ==
    IF seq = <<>> THEN store
    ELSE StoreAfter(Tail(seq), <<trade_data_added(store[1], Head(seq)),
                                 ack_data_added(store[2], Head(seq)),
                                 error_data_added(store[3], Head(seq))>>)

\* the two mappings have the same keys with the same records
SameMapping(d1, d2) ==
    /\ KeySet(d1) = KeySet(d2)
    /\ Len(d1) = Len(d2)
    /\ \A k \in KeySet(d1) : Lookup(d1, k) = Lookup(d2, k)

\* the ids listed under each type of discrepancy are the same in the two lists
SameDiscrepancyIds(ds1, ds2) ==
    {<<ds1[i].type, ds1[i].trade_ids>> : i \in 1..Len(ds1)}
       = {<<ds2[i].type, ds2[i].trade_ids>> : i \in 1..Len(ds2)}

\* C21: for error-free records with pairwise different file_path, every order of the
\* add_file_data calls on a fresh engine gives the same three mappings, key for key, and
\* a report with the same summary and the same trade ids under each discrepancy type.
C21_OrderIrrelevant ==
    test_pc = "reconciled" =>
        \A seq \in Orderings(StoredRecords) :
            LET store == StoreAfter(seq, <<<<>>, <<>>, <<>>>>) IN
            /\ SameMapping(store[1], trade_data)
            /\ SameMapping(store[2], ack_data)
            /\ SameMapping(store[3], error_data)
            /\ Summary(store[1], store[2], store[3]) = TestReport.summary
            /\ SameDiscrepancyIds(Discrepancies(store[1], store[2]), TestReport.discrepancies)

\* five records of five files, the two trade files with different numbers of trades, the
\* report listing missing and unexpected ids
C21_Witness ==
    /\ test_pc = "reconciled"
    /\ Cardinality(StoredRecords) = 5
    /\ Len(trade_data[1].trades) # Len(trade_data[2].trades)
    /\ Len(TestReport.discrepancies) = 2
    /\ TestReport.summary.ore_errors = 2

\* the file has no parser, or its parser fails on it
Malformed(file) ==
    \/ get_file_parser(file.file_path) = "None"
    \/ Parse(get_file_parser(file.file_path), file).has_error

\* C22: process_file_for_reconciliation on a file with no matching parser, or one whose
\* parse fails, returns normally, leaves the three mappings as they were and adds no
\* report to the history.
C22_MalformedNoOp ==
    [][\A file \in SmallFiles, now \in Instants :
          (process_file_for_reconciliation(file, now) /\ Malformed(file)) =>
              /\ NoMappingChanges
              /\ UNCHANGED reconciliation_history
      ]_vars

\* C23: no report has status PARTIALLY_RECONCILED, whatever add_file_data, clear_data and
\* reconcile_all calls came before it; nor does _get_reconciliation_status return it for
\* any counts that are not negative.
C23_NeverPartially ==
    /\ \A r \in Reports :
          r.summary.reconciliation_status
             \in {"NO_TRADES", "FULLY_RECONCILED", "MISSING_ACKNOWLEDGMENTS",
                  "TRANSFORM_ERRORS", "ORE_ERRORS"}
    /\ \A trades_sent, missing, transform, ore \in 0..MaxCount :
          GetReconciliationStatus(trades_sent, 0, 0, missing, transform, ore)
             # "PARTIALLY_RECONCILED"

\* a report whose status comes from the last rule before the default: ORE errors alone
C23_Witness ==
    /\ reconciliation_history # <<>>
    /\ Latest.summary.reconciliation_status = "ORE_ERRORS"
    /\ Latest.summary.total_trades_sent = 2
    /\ Latest.summary.missing_acknowledgments = 0

\* every TradeID of a stored trade record, the empty one included
TradeIdsStored == {t.TradeID : t \in StoredTrades}

\* the TradeIDs of stored acknowledgment entries that no stored trade record has
UnsentAckIds == {a.TradeID : a \in StoredAcks} \ TradeIdsStored

RECURSIVE WithoutIds(_, _)
\* the entries of acks whose TradeID is not in ids
WithoutIds(acks, ids) ==
    IF acks = <<>> THEN <<>>
    ELSE IF Head(acks).TradeID \in ids THEN WithoutIds(Tail(acks), ids)
    ELSE <<Head(acks)>> \o WithoutIds(Tail(acks), ids)

\* ack_data with the entries for the ids taken out of every acknowledgment file
AckDataWithout(ids) ==
    [i \in 1..Len(ack_data) |->
        [ack_data[i] EXCEPT !.acknowledgments = WithoutIds(@, ids)]]

\* C24: the status does not depend on acknowledgment entries for trades that no stored
\* trade extract holds: the store with any of these entries taken out has the status of
\* the store with all of them.
C24_UnexpectedNoInfluence ==
    test_pc = "reconciled" =>
        \A ids \in SUBSET UnsentAckIds :
            Summary(trade_data, AckDataWithout(ids), error_data).reconciliation_status
               = TestReport.summary.reconciliation_status

\* a FULLY_RECONCILED report that lists an unexpected acknowledgment
C24_Witness ==
    /\ test_pc = "reconciled"
    /\ TestReport.summary.reconciliation_status = "FULLY_RECONCILED"
    /\ ListedIds(TestReport, "unexpected_acknowledgments") = {"T9"}
    /\ UnsentAckIds = {"T9"}

\* the report lists the discrepancies of the store as it is now
DiscrepanciesOfStore(r) ==
    /\ ListsExactly(r, "missing_acknowledgments",
                    (SentIds \ IdsWithStatus("ACK")) \ IdsWithStatus("NACK"))
    /\ ListsExactly(r, "unexpected_acknowledgments",
                    ((IdsWithStatus("ACK") \cup IdsWithStatus("NACK")) \ {""}) \ SentIds)
    /\ OnlyTheTwoTypes(r)

\* C26: in a run of process_file_for_reconciliation calls, one after the other, the last
\* report of the history describes the store as it is: its three file lists are the keys
\* of the three mappings and its summary and discrepancies are those of the store; a call
\* on a file with a parser returns that report.
C26_LatestDescribesStore ==
    /\ reconciliation_history # <<>> =>
          /\ ReportOfStore(Latest)
          /\ DiscrepanciesOfStore(Latest)
          /\ Latest.summary = Summary(trade_data, ack_data, error_data)
    /\ result.kind = "processed" =>
          /\ reconciliation_history # <<>>
          /\ result.reports = <<Latest>>

\* the second file ingested changed the store, and the last report lists both files
C26_Witness ==
    /\ Len(reconciliation_history) = 2
    /\ result.kind = "processed"
    /\ reconciliation_history[1].ack_files = <<>>
    /\ Latest.trade_files = <<"TRADE_EXTRACT_1.csv">>
    /\ Latest.ack_files = <<"ACK_1.csv">>
    /\ Latest.summary # reconciliation_history[1].summary

\* C27: in every report missing_acknowledgments <= total_trades_sent, and a report with
\* status NO_TRADES lists no missing_acknowledgments discrepancy.
C27_MissingBounded ==
    \A r \in Reports :
        /\ r.summary.missing_acknowledgments <= r.summary.total_trades_sent
        /\ r.summary.reconciliation_status = "NO_TRADES" =>
              /\ OfType(r, "missing_acknowledgments") = {}
              /\ r.summary.missing_acknowledgments = 0

\* a NO_TRADES report with an unexpected acknowledgment and an error group
C27_Witness ==
    /\ test_pc = "reconciled"
    /\ TestReport.summary.reconciliation_status = "NO_TRADES"
    /\ OfType(TestReport, "unexpected_acknowledgments") # {}
    /\ TestReport.errors # <<>>

\* the count of the one entry of the type in the list, or 0 when there is none
CountOfType(entries, type) ==
    IF \E i \in 1..Len(entries) : entries[i].type = type
    THEN entries[CHOOSE i \in 1..Len(entries) : entries[i].type = type].count
    ELSE 0

\* no two entries of the list have the same type
OnePerType(entries) ==
    \A i, j \in 1..Len(entries) : entries[i].type = entries[j].type => i = j

\* C28: in every report each discrepancy and each error group has a count >= 1 that is
\* the number of items it lists, no type occurs twice, the missing and the unexpected
\* ids are disjoint, and summary.missing_acknowledgments, summary.transform_errors and
\* summary.ore_errors are the counts of the entries of their types, 0 when there is none.
C28_Consistent ==
    \A r \in Reports :
        /\ \A i \in 1..Len(r.discrepancies) :
              /\ r.discrepancies[i].count >= 1
              /\ r.discrepancies[i].count = Cardinality(r.discrepancies[i].trade_ids)
        /\ \A i \in 1..Len(r.errors) :
              /\ r.errors[i].count >= 1
              /\ r.errors[i].count = Len(r.errors[i].errors)
        /\ OnePerType(r.discrepancies)
        /\ OnePerType(r.errors)
        /\ ListedIds(r, "missing_acknowledgments")
              \cap ListedIds(r, "unexpected_acknowledgments") = {}
        /\ r.summary.missing_acknowledgments
              = CountOfType(r.discrepancies, "missing_acknowledgments")
        /\ r.summary.transform_errors = CountOfType(r.errors, "transform_failures")
        /\ r.summary.ore_errors = CountOfType(r.errors, "ore_errors")

\* a report with both discrepancies and both error groups
C28_Witness ==
    /\ test_pc = "reconciled"
    /\ Len(TestReport.discrepancies) = 2
    /\ Len(TestReport.errors) = 2
    /\ TestReport.summary.transform_errors = 2

\* the events taken so far: those whose callback was called and those whose thread is in
\* the sleep before the call
Taken ==
    {[file_path |-> invoked[i].file_path, current_time |-> invoked[i].current_time, by |-> i] :
        i \in 1..Len(invoked)}
    \cup {[file_path |-> handler[t].file_path, current_time |-> handler[t].current_time,
           by |-> Len(invoked) + t] : t \in {u \in Threads : handler[u].pc = "sleep"}}

\* thread t leaves the with statement of on_created in this step
LeavesLock(t) == handler[t].pc = "check" /\ handler'[t].pc # "check"

\* C25: for each path, under every interleaving of the threads in on_created, two events
\* that both lead to a call of the callback have times at least debounce_time apart; an
\* event less than debounce_time after the last event taken for its path leads to no call
\* and leaves last_processed as it is; an event is taken whenever its own path has no
\* entry or one at least debounce_time old, whatever the entries of other paths.
C25_Debounce ==
    /\ [](\A e1, e2 \in Taken :
             (e1.by # e2.by /\ e1.file_path = e2.file_path) =>
                 \/ e1.current_time - e2.current_time >= debounce_time
                 \/ e2.current_time - e1.current_time >= debounce_time)
    /\ [][\A t \in Threads :
             LeavesLock(t) =>
                IF /\ handler[t].file_path \in DOMAIN last_processed
                   /\ handler[t].current_time - last_processed[handler[t].file_path]
                         < debounce_time
                THEN /\ UNCHANGED <<last_processed, invoked>>
                     /\ handler'[t].pc = "idle"
                     /\ handler'[t].outcome = "debounced"
                ELSE /\ handler'[t].pc = "sleep"
                     /\ handler[t].file_path \in DOMAIN last_processed'
                     /\ last_processed'[handler[t].file_path] = handler[t].current_time
                     /\ \A p \in DOMAIN last_processed \ {handler[t].file_path} :
                           p \in DOMAIN last_processed' /\ last_processed'[p] = last_processed[p]
         ]_vars
    /\ [][\A t \in Threads :
             (handler[t].pc = "sleep" /\ handler'[t].pc # "sleep") =>
                 invoked' = Append(invoked, Invocation(1, handler[t].file_path,
                                                       handler[t].current_time))
         ]_vars

\* one path's callback was called twice, an event was debounced, and the other path has
\* its own entry
C25_Witness ==
    /\ \E i, j \in 1..Len(invoked) :
          i < j /\ invoked[i].file_path = invoked[j].file_path
    /\ \E t \in Threads : handler[t].outcome = "debounced"
    /\ DOMAIN last_processed = WatchedPaths

\* C29: every parsed-file record and every report that process_new_file hands to the
\* index is stored, under a document id that no document of the same collection had
\* before, also when files are processed within one second.
C29_FreshDocIds ==
    [][Len(reconciliation_history') > Len(reconciliation_history) =>
          \A i \in 1..Len(handed') :
              /\ handed'[i].doc_id \notin collections[handed'[i].collection]
              /\ handed'[i].doc_id \in collections'[handed'[i].collection]
              /\ handed'[i].outcome = "stored"]_vars

\* thread t enters monitor_folders in this step
EntersMonitorFolders(t) == caller[t].pc = "idle" /\ caller'[t].pc # "idle"

\* C30: at most one observer is alive at any time; a call of monitor_folders made while
\* an observer started by an earlier call is alive starts no observer and no thread and
\* returns the thread of the earlier call, so that no handler holds the callback of the
\* later call.
C30_OneObserver ==
    /\ [](Cardinality(AliveObservers) <= 1)
    /\ [][\A t \in Threads :
             (EntersMonitorFolders(t) /\ AliveObservers # {}) =>
                 caller'[t].pc = "active"]_vars
    /\ [][\A t \in Threads :
             (caller[t].pc = "active" /\ caller'[t].pc = "idle") =>
                 /\ observers' = observers
                 /\ caller'[t].returned = <<attrs.observer>>]_vars

\* thread t is past its add_file_data and not yet back from reconcile_all
Reconciling(t) == pc[t][1] \in {"keys", "iter", "loop", "append"}

\* C7: with two threads in process_file_for_reconciliation on one engine, the
\* add_file_data and the reconcile_all of one ingestion are one unit: between them the
\* other thread neither adds nor reconciles, so the engine's fields stay as the thread's
\* own add_file_data left them, and the call returns the report of that store.
C7_OneUnit ==
    \A t \in Threads :
       /\ Reconciling(t) =>
             local[t].after_put
                = <<trade_data, ack_data, error_data, reconciliation_history>>
       /\ (pc[t] = <<"done", 0>> /\ local[t].after_put # <<>>) =>
             /\ local[t].returned.kind = "processed"
             /\ SameButTimestamp(local[t].returned.reports[1],
                                 ReconciliationResults(local[t].after_put[1],
                                                       local[t].after_put[2],
                                                       local[t].after_put[3], 0))

====
